---- MODULE Spec2Model ----
(***************************************************************************)
(* A model of the interview-analysis core of the repository:               *)
(*   - RealtimeAnalyzer (realtime_analysis.py): the per-frame analyzer     *)
(*     with its frame counter and rolling histories;                       *)
(*   - websocket_realtime_analysis (fastapi_app.py): the streaming         *)
(*     endpoint that drives the process-wide analyzer;                     *)
(*   - VideoAnalyzer.analyze_video (video_analysis.py): the batch          *)
(*     pipeline with its quality gate.                                     *)
(* Numbers with decimals are kept as integers: ratios and normalised       *)
(* metrics in hundredths, seconds in hundredths of a second.               *)
(***************************************************************************)
EXTENDS Integers, Sequences, FiniteSets, TLC

VARIABLES
    realtime_analyzer, \* <<>> (None) or <<self>>: the module-level _realtime_analyzer
    result,            \* the value analyze_frame returned, when it was the last call
    summary,           \* the value get_session_summary returned, when it was the last call
    last_call,         \* the RealtimeAnalyzer method called last
    calls,             \* history variable: analyze_frame calls since the last reset
    arrived,           \* history variable: gaze entries recorded since the last reset
    wiped,             \* history variable: some reset discarded a session with frames
    ws,                \* per connection: the state of its websocket_realtime_analysis call
    session,           \* per connection: history variables of its session
    video,             \* the file at video_path, as the libraries read it
    analyzer,          \* the VideoAnalyzer instance analyze_video runs on
    transcription,     \* analyze_video's local transcription
    pc,                \* the statement of analyze_video to run next
    stages,            \* history variable: the pipeline stages entered so far
    results,           \* analyze_video's local results
    audio_path,        \* analyze_video's local audio_path
    temp_audio         \* the file system: the temporary .wav file exists

rt_vars == <<realtime_analyzer, result, summary, last_call, calls, arrived, wiped>>

ws_vars == <<ws, session>>

call_vars == <<result, summary, last_call, calls, arrived, wiped>>

batch_vars == <<video, analyzer, transcription, pc, stages, results, audio_path,
                temp_audio>>

vars == <<realtime_analyzer, result, summary, last_call, calls, arrived, wiped,
          ws, session, video, analyzer, transcription, pc, stages, results,
          audio_path, temp_audio>>

\* the batch variables while no analyze_video call is modelled
NoBatchCall ==
    /\ video = "none"
    /\ analyzer = "none"
    /\ transcription = "none"
    /\ pc = "not_called"
    /\ stages = <<>>
    /\ results = <<>>
    /\ audio_path = "None"
    /\ temp_audio = FALSE

(***************************************************************************)
(* Bounds of the model.                                                    *)
(***************************************************************************)
\* analyze_frame calls between two resets
MaxFrames == 102
\* changes of the eye-contact classification within one session's frame stream
MaxSwitches == 1
\* the last frame of a session at which the classification may change
LastSwitchFrame == 35
\* client messages read on one streaming connection
MaxMsgs == 2

(***************************************************************************)
(* Program constants.                                                      *)
(***************************************************************************)
\* realtime_analysis.py:114, the length the histories are trimmed to
HISTORY_LIMIT == 100
\* realtime_analysis.py:96, the window of the eye-contact alert
ALERT_WINDOW == 30
\* realtime_analysis.py:53, ALERT_THRESHOLDS["eye_contact_low"] in hundredths
EYE_CONTACT_LOW == 40

(***************************************************************************)
(* Helpers: Python list operations.                                        *)
(***************************************************************************)
\* s[-n:]
LastN(s, n) == IF Len(s) > n THEN SubSeq(s, Len(s) - n + 1, Len(s)) ELSE s

\* s[:n]
FirstN(s, n) == IF Len(s) > n THEN SubSeq(s, 1, n) ELSE s

RECURSIVE SumUpTo(_, _)
SumUpTo(s, n) == IF n = 0 THEN 0 ELSE s[n] + SumUpTo(s, n - 1)

\* sum(s)
SumSeq(s) == SumUpTo(s, Len(s))

\* the number of places where a sequence changes value
Switches(s) == Cardinality({i \in 1..(Len(s) - 1) : s[i] # s[i + 1]})

(***************************************************************************)
(* RealtimeAnalyzer                                                        *)
(***************************************************************************)
HistoryKeys == {"eye_contact", "emotions", "posture", "attention"}

EmptyHistory == [k \in HistoryKeys |-> <<>>]

\* RealtimeAnalyzer.__init__: the tracking state of a new analyzer; mesh says
\* whether MediaPipe's face mesh could be built.
RealtimeAnalyzer(mesh) ==
    [face_mesh |-> mesh, frame_count |-> 0, metrics_history |-> EmptyHistory]

NoResult == [frame_number |-> 0, gaze |-> "none", alerts |-> <<>>]

NoSummary == [total_frames |-> -1, has_eye_contact_percentage |-> FALSE,
              eye_contact_percentage |-> 0]

\* analyze_frame, lines 96-103: the alerts raised for the eye-contact history h
\* as it stands right after this frame's entry was appended.
eye_contact_alerts(h) ==
    IF Len(h) > ALERT_WINDOW
       /\ SumSeq(LastN(h, ALERT_WINDOW)) * 100 < EYE_CONTACT_LOW * ALERT_WINDOW
    THEN <<"eye_contact">>
    ELSE <<>>

\* A trim that keeps the oldest entries, h[:100].
trim_history_keeps_oldest(h) == FirstN(h, HISTORY_LIMIT)

\* analyze_frame, lines 112-115: the trim of one history.
trim_history(h) ==
    IF Len(h) > HISTORY_LIMIT THEN LastN(h, HISTORY_LIMIT) ELSE h

\* analyze_frame: eye_contact is what _analyze_gaze_fast reports for the frame
\* (FALSE too when the frame cannot be processed: its own handler returns the
\* default gaze_data).  The helpers called inside the try block catch their
\* own exceptions, so the block runs to its end.
analyze_frame(self, eye_contact) ==
    LET fc == self.frame_count + 1
        h1 == IF self.face_mesh
              THEN Append(self.metrics_history.eye_contact,
                          IF eye_contact THEN 1 ELSE 0)
              ELSE self.metrics_history.eye_contact
        mh1 == [self.metrics_history EXCEPT !.eye_contact = h1]
        mh2 == [k \in HistoryKeys |-> trim_history(mh1[k])]
    IN  [self |-> [self EXCEPT !.frame_count = fc, !.metrics_history = mh2],
         result |-> [frame_number |-> fc,
                     gaze |-> IF ~self.face_mesh THEN "none"
                              ELSE IF eye_contact THEN "contact" ELSE "no_contact",
                     alerts |-> IF self.face_mesh THEN eye_contact_alerts(h1)
                                ELSE <<>>]]

\* round(np.mean(h) * 100, 2) for a history h of 0/1 entries, in hundredths of
\* a percent, rounded half to even.
MeanPercent(h) ==
    LET num == SumSeq(h) * 10000
        q == num \div Len(h)
        r2 == 2 * (num % Len(h))
    IN  IF r2 > Len(h) \/ (r2 = Len(h) /\ q % 2 = 1) THEN q + 1 ELSE q

\* get_session_summary averaging the window of the alert, the last 30 entries
get_session_summary_alert_window(self) ==
    [total_frames |-> self.frame_count,
     has_eye_contact_percentage |-> self.metrics_history.eye_contact # <<>>,
     eye_contact_percentage |->
         IF self.metrics_history.eye_contact # <<>>
         THEN MeanPercent(LastN(self.metrics_history.eye_contact, ALERT_WINDOW))
         ELSE 0]

\* get_session_summary
get_session_summary(self) ==
    [total_frames |-> self.frame_count,
     has_eye_contact_percentage |-> self.metrics_history.eye_contact # <<>>,
     eye_contact_percentage |->
         IF self.metrics_history.eye_contact # <<>>
         THEN MeanPercent(self.metrics_history.eye_contact) ELSE 0]

\* A reset that forgets to replace metrics_history.
reset_keeps_history(self) == [self EXCEPT !.frame_count = 0]

\* reset
reset(self) ==
    [self EXCEPT !.frame_count = 0, !.metrics_history = EmptyHistory]

(***************************************************************************)
(* One analyzer driven by arbitrary calls of its three methods.            *)
(***************************************************************************)
Self == realtime_analyzer[1]

\* the streaming connections; none is open while the analyzer is driven alone
Conns == {"ws1", "ws2"}

\* pending: the message handed to the send_json being awaited; sent, reads,
\* frames_read, end_read: history variables, the types of the messages sent
\* and the client messages read so far
Handler(at) ==
    [pc |-> at, pending |-> <<>>, sent |-> <<>>, reads |-> 0, frames_read |-> 0,
     end_read |-> FALSE]

\* own_calls, own_arrived: the connection's own frames analysed, and their
\* gaze entries, since its session started; in_analyzer: how many of its
\* frames the analyzer's frame_count still counts; summarised: a summary was
\* computed for it; ended_by: what ended its session
NoSession ==
    [own_calls |-> 0, own_arrived |-> <<>>, in_analyzer |-> 0, summarised |-> FALSE,
     ended_by |-> "nothing"]

RTInit ==
    /\ \E mesh \in BOOLEAN : realtime_analyzer = <<RealtimeAnalyzer(mesh)>>
    /\ ws = [c \in Conns |-> Handler("unused")]
    /\ session = [c \in Conns |-> NoSession]
    /\ result = NoResult
    /\ summary = NoSummary
    /\ last_call = "__init__"
    /\ calls = 0
    /\ arrived = <<>>
    /\ wiped = FALSE
    /\ NoBatchCall

CallAnalyzeFrame ==
    \E eye_contact \in BOOLEAN :
        LET r == analyze_frame(Self, eye_contact)
            log == IF Self.face_mesh
                   THEN Append(arrived, IF eye_contact THEN 1 ELSE 0)
                   ELSE arrived
        IN  /\ calls < MaxFrames
            /\ Switches(log) <= MaxSwitches
            /\ Switches(log) > Switches(arrived) => Len(log) <= LastSwitchFrame
            /\ realtime_analyzer' = <<r.self>>
            /\ result' = r.result
            /\ last_call' = "analyze_frame"
            /\ calls' = calls + 1
            /\ arrived' = log
            /\ summary' = NoSummary
            /\ UNCHANGED <<wiped, ws_vars, batch_vars>>

CallGetSessionSummary ==
    /\ summary' = get_session_summary(Self)
    /\ last_call' = "get_session_summary"
    /\ result' = NoResult
    /\ UNCHANGED <<realtime_analyzer, calls, arrived, wiped, ws_vars, batch_vars>>

CallReset ==
    /\ realtime_analyzer' = <<reset(Self)>>
    /\ last_call' = "reset"
    /\ calls' = 0
    /\ arrived' = <<>>
    /\ result' = NoResult
    /\ summary' = NoSummary
    /\ wiped' = (wiped \/ calls > 0)
    /\ UNCHANGED <<ws_vars, batch_vars>>

RTNext == CallAnalyzeFrame \/ CallGetSessionSummary \/ CallReset

SpecRealtime == RTInit /\ [][RTNext]_vars

(***************************************************************************)
(* Properties of the analyzer alone.                                       *)
(***************************************************************************)
Range(s) == {s[i] : i \in DOMAIN s}

NoContact(n) == [i \in 1..n |-> 0]

\* C2: in a fresh session with gaze analysis available, when the first 30
\* frames are all classified as no eye contact, the response to the 30th
\* frame carries an alert of type eye_contact.
C2_AlertInFrame30 ==
    (/\ last_call = "analyze_frame"
     /\ Self.face_mesh
     /\ calls = ALERT_WINDOW
     /\ arrived = NoContact(ALERT_WINDOW))
    => "eye_contact" \in Range(result.alerts)

\* C3: whatever calls were made, every rolling history holds at most 100
\* entries, and the eye-contact history (the only one analyze_frame appends
\* to) is the most recent 100 of the entries recorded since the last reset,
\* in the order they arrived.
C3_HistoriesCapped ==
    /\ \A k \in HistoryKeys : Len(Self.metrics_history[k]) <= HISTORY_LIMIT
    /\ Self.metrics_history.eye_contact = LastN(arrived, HISTORY_LIMIT)

\* an analyze_frame call has just trimmed a history whose oldest and newest
\* entries differ
C3_Witness ==
    /\ last_call = "analyze_frame"
    /\ Len(arrived) > HISTORY_LIMIT
    /\ Len(Self.metrics_history.eye_contact) = HISTORY_LIMIT
    /\ arrived[1] # arrived[Len(arrived)]

\* C4: right after reset() frame_count is 0 and all four histories are
\* empty; the first analyze_frame after it returns frame_number 1; and a
\* response carries an eye-contact alert only when more than 30 gaze entries
\* were recorded since the reset.
C4_ResetClears ==
    /\ last_call = "reset"
        => Self.frame_count = 0 /\ Self.metrics_history = EmptyHistory
    /\ (last_call = "analyze_frame" /\ calls = 1) => result.frame_number = 1
    /\ result.alerts # <<>> => Len(arrived) > ALERT_WINDOW

\* a session with frames was reset, and the 31st frame after the reset
\* raised the alert
C4_Witness ==
    /\ wiped
    /\ last_call = "analyze_frame"
    /\ calls = ALERT_WINDOW + 1
    /\ "eye_contact" \in Range(result.alerts)

(***************************************************************************)
(* websocket_realtime_analysis: the /ws/realtime_analysis endpoint.        *)
(* Each connection runs one call of the handler; the calls interleave at   *)
(* their awaits (accept, receive_json, send_json).  pc is the await a call *)
(* is suspended at:                                                        *)
(*   idle        the client has not connected yet                          *)
(*   accepting   await websocket.accept()                                  *)
(*   receive     await websocket.receive_json(), in the loop               *)
(*   send        await websocket.send_json(...), in the loop               *)
(*   send_final  await websocket.send_json(...), after which the call ends *)
(*   closed      the call has returned                                     *)
(* A lost connection shows as WebSocketDisconnect raised by receive_json.  *)
(***************************************************************************)
\* get_realtime_analyzer: the process-wide analyzer, built on first use
get_realtime_analyzer(current, mesh) ==
    IF current = <<>> THEN <<RealtimeAnalyzer(mesh)>> ELSE current

ErrorMessage == [type |-> "error"]

\* What _analyze_gaze_fast reports for the frames of a connection: the same
\* for all its frames and different for the two connections, so that an
\* entry of a history shows whose frame it came from.
GazeOf(c) == c = "ws1"

WSInit ==
    /\ realtime_analyzer = <<>>
    /\ result = NoResult
    /\ summary = NoSummary
    /\ last_call = "none"
    /\ calls = 0
    /\ arrived = <<>>
    /\ wiped = FALSE
    /\ ws = [c \in Conns |-> Handler("idle")]
    /\ session = [c \in Conns |-> NoSession]
    /\ NoBatchCall

\* line 3032: the connection is being accepted
Accept(c) ==
    /\ ws[c].pc = "idle"
    /\ c = "ws2" => ws["ws1"].pc # "idle"      \* ws1 names the first to connect
    /\ ws' = [ws EXCEPT ![c].pc = "accepting"]
    /\ UNCHANGED <<realtime_analyzer, session, call_vars, batch_vars>>

\* lines 3034-3037: the analyzer is fetched and reset for the new session
StartSession(c) ==
    /\ ws[c].pc = "accepting"
    /\ \E mesh \in BOOLEAN :
           realtime_analyzer' =
               <<reset(get_realtime_analyzer(realtime_analyzer, mesh)[1])>>
    /\ ws' = [ws EXCEPT ![c].pc = "receive"]
    /\ session' = [d \in Conns |->
                      IF d = c
                      THEN NoSession
                      ELSE [session[d] EXCEPT !.in_analyzer = 0]]
    /\ UNCHANGED <<call_vars, batch_vars>>

\* lines 3041-3058: a frame message whose image payload decodes; the frame is
\* analysed and the analysis sent, or, when send_json cannot serialise the
\* result, the error message of lines 3060-3064 instead
RecvFrame(c) ==
    /\ ws[c].pc = "receive"
    /\ ws[c].reads < MaxMsgs
    /\ \E serialisable \in BOOLEAN :
           LET eye_contact == GazeOf(c)
               r == analyze_frame(Self, eye_contact)
               msg == IF serialisable
                      THEN [type |-> "analysis", data |-> r.result]
                      ELSE ErrorMessage
           IN  /\ realtime_analyzer' = <<r.self>>
               /\ ws' = [ws EXCEPT ![c].pc = "send",
                                   ![c].pending = <<msg>>,
                                   ![c].reads = @ + 1,
                                   ![c].frames_read = @ + 1]
               /\ session' = [session EXCEPT
                      ![c].own_calls = @ + 1,
                      ![c].in_analyzer = @ + 1,
                      ![c].own_arrived =
                          IF Self.face_mesh
                          THEN Append(@, IF eye_contact THEN 1 ELSE 0) ELSE @]
               /\ UNCHANGED <<call_vars, batch_vars>>

\* lines 3044-3049, 3060-3064: a frame message whose payload raises while it
\* is decoded (no "frame" key, no comma, bad base64); analyze_frame is not
\* reached
RecvBadFrame(c) ==
    /\ ws[c].pc = "receive"
    /\ ws[c].reads < MaxMsgs
    /\ ws' = [ws EXCEPT ![c].pc = "send",
                        ![c].pending = <<ErrorMessage>>,
                        ![c].reads = @ + 1,
                        ![c].frames_read = @ + 1]
    /\ UNCHANGED <<realtime_analyzer, session, call_vars, batch_vars>>

\* lines 3043, 3066: a message of any other type is read and dropped
RecvOther(c) ==
    /\ ws[c].pc = "receive"
    /\ ws[c].reads < MaxMsgs
    /\ ws' = [ws EXCEPT ![c].reads = @ + 1]
    /\ UNCHANGED <<realtime_analyzer, session, call_vars, batch_vars>>

\* end_session without the break of line 3073: the loop goes on
RecvEndSession_no_break(c) ==
    /\ ws[c].pc = "receive"
    /\ ws[c].reads < MaxMsgs
    /\ ws' = [ws EXCEPT
           ![c].pc = "send",
           ![c].pending = <<[type |-> "summary", data |-> get_session_summary(Self)]>>,
           ![c].reads = @ + 1,
           ![c].end_read = TRUE]
    /\ session' = [session EXCEPT ![c].summarised = TRUE,
                                   ![c].ended_by = "end_session"]
    /\ UNCHANGED <<realtime_analyzer, call_vars, batch_vars>>

\* lines 3066-3073: end_session
RecvEndSession(c) ==
    /\ ws[c].pc = "receive"
    /\ ws[c].reads < MaxMsgs
    /\ ws' = [ws EXCEPT
           ![c].pc = "send_final",
           ![c].pending = <<[type |-> "summary", data |-> get_session_summary(Self)]>>,
           ![c].reads = @ + 1,
           ![c].end_read = TRUE]
    /\ session' = [session EXCEPT ![c].summarised = TRUE,
                                   ![c].ended_by = "end_session"]
    /\ UNCHANGED <<realtime_analyzer, call_vars, batch_vars>>

\* lines 3077-3085: receive_json raises on text that is not JSON, or data is
\* not an object; the handler of the outer try sends an error and the call ends
RecvMalformed(c) ==
    /\ ws[c].pc = "receive"
    /\ ws[c].reads < MaxMsgs
    /\ ws' = [ws EXCEPT ![c].pc = "send_final",
                        ![c].pending = <<ErrorMessage>>,
                        ![c].reads = @ + 1]
    /\ session' = [session EXCEPT ![c].ended_by = "error"]
    /\ UNCHANGED <<realtime_analyzer, call_vars, batch_vars>>

\* lines 3075-3076: the connection is lost; receive_json raises
\* WebSocketDisconnect, which is printed
Disconnect(c) ==
    /\ ws[c].pc = "receive"
    /\ ws' = [ws EXCEPT ![c].pc = "closed"]
    /\ session' = [session EXCEPT ![c].ended_by = "connection_loss"]
    /\ UNCHANGED <<realtime_analyzer, call_vars, batch_vars>>

\* a send_json completes: the loop goes back to receive_json, or the call ends
Send(c) ==
    /\ ws[c].pc \in {"send", "send_final"}
    /\ ws' = [ws EXCEPT ![c].pc = IF ws[c].pc = "send" THEN "receive" ELSE "closed",
                        ![c].pending = <<>>,
                        ![c].sent = Append(@, ws[c].pending[1].type)]
    /\ UNCHANGED <<realtime_analyzer, session, call_vars, batch_vars>>

WSNext ==
    \E c \in Conns :
        \/ Accept(c)
        \/ StartSession(c)
        \/ RecvFrame(c)
        \/ RecvBadFrame(c)
        \/ RecvOther(c)
        \/ RecvEndSession(c)
        \/ RecvMalformed(c)
        \/ Disconnect(c)
        \/ Send(c)

SpecWebSocket == WSInit /\ [][WSNext]_vars

(***************************************************************************)
(* Properties of the streaming endpoint.                                   *)
(***************************************************************************)
Count(s, x) == Cardinality({i \in DOMAIN s : s[i] = x})

\* C1: while a connection's session is open, the frame_count and the
\* eye-contact history its responses and summary are computed from are those
\* of its own frames: nothing done for the other connection has changed them.
C1_SessionsIsolated ==
    \A c \in Conns :
        ws[c].pc \in {"receive", "send"}
        => /\ Self.frame_count = session[c].own_calls
           /\ Self.metrics_history.eye_contact
                  = LastN(session[c].own_arrived, HISTORY_LIMIT)

\* C5: once a session has ended, by end_session or by the loss of the
\* connection, a summary was computed for it and none of its frames is left
\* in the analyzer's frame_count.
C5_EndedSessionDiscarded ==
    \A c \in Conns :
        (ws[c].pc = "closed"
         /\ session[c].ended_by \in {"end_session", "connection_loss"})
        => session[c].summarised /\ session[c].in_analyzer = 0

\* C6: whenever the handler is about to read a client message, every frame
\* message read so far was answered by exactly one message, of type analysis
\* or error; once end_session was read the handler reads no more, and it
\* ends having sent exactly one summary, as its last message.
C6_Sequential ==
    \A c \in Conns :
        LET h == ws[c] IN
        /\ h.pc = "receive"
           => /\ Len(h.sent) = h.frames_read
              /\ \A i \in DOMAIN h.sent : h.sent[i] \in {"analysis", "error"}
        /\ h.pc = "send" => Len(h.sent) = h.frames_read - 1
        /\ h.end_read
           => /\ h.pc \in {"send_final", "closed"}
              /\ Len(h.sent) = h.frames_read + (IF h.pc = "closed" THEN 1 ELSE 0)
              /\ Count(h.sent, "summary") = (IF h.pc = "closed" THEN 1 ELSE 0)
              /\ h.pc = "closed" => h.sent[Len(h.sent)] = "summary"
        /\ ~h.end_read => Count(h.sent, "summary") = 0

\* a connection had a frame answered, then read end_session, sent the summary
\* and ended, while the other connection was streaming
C6_Witness ==
    \E c \in Conns, d \in Conns :
        /\ c # d
        /\ ws[c].pc = "closed"
        /\ ws[c].end_read
        /\ ws[c].sent = <<"analysis", "summary">>
        /\ ws[d].frames_read > 0

(***************************************************************************)
(* The batch pipeline: VideoAnalyzer.analyze_video (video_analysis.py).    *)
(* Scores are kept in hundredths of a point, percentages in hundredths of  *)
(* a percent, audio energies in ten-thousandths.                           *)
(***************************************************************************)
\* video_analysis.py:91, seconds
MIN_VIDEO_DURATION == 10
\* video_analysis.py:92, 0.3 in hundredths
MIN_FACE_DETECTION_RATIO == 30
\* video_analysis.py:93, 0.01 in ten-thousandths
MIN_AUDIO_ENERGY == 100

Min(a, b) == IF a < b THEN a ELSE b

Max(a, b) == IF a > b THEN a ELSE b

\* Python's round() of the fraction n/d to an integer, ties to the even one
Round(n, d) ==
    LET q == n \div d
        r == n % d
    IN  IF 2 * r < d THEN q
        ELSE IF 2 * r > d THEN q + 1
        ELSE IF q % 2 = 0 THEN q ELSE q + 1

\* len(range(0, n, step))
RangeLen(n, step) == (n + step - 1) \div step

(***************************************************************************)
(* The inputs of analyze_video.  A video is what OpenCV, librosa and       *)
(* moviepy report of the file: fps and frame_count as cap.get returns      *)
(* them (0 when the file cannot be opened), faces_detected the number of   *)
(* frames, among those sampled once a second, in which the Haar cascade    *)
(* finds a face, audio_decodes whether librosa.load succeeds, audio_energy *)
(* the mean RMS rounded to four decimals, cv_error whether an OpenCV call  *)
(* of the validator raises, footage what the frames and the sound track    *)
(* show, from which each frame walk gathers what it measures.              *)
(***************************************************************************)
FrameCounts == {0, 150, 300, 900}

FrameRates == {0, 30}

FaceCounts == {0, 2, 3, 10}

Footages == {"engaged", "nervous"}

AudioEnergies == {0, 100, 300}

\* cap.get(cv2.CAP_PROP_FPS) or 30
FpsOr30(v) == IF v.fps = 0 THEN 30 ELSE v.fps

\* the frames the validator and the facial walk sample: one per second
SampledFrames(v) == RangeLen(v.frame_count, Max(1, FpsOr30(v)))

Unopenable ==
    {[openable |-> FALSE, fps |-> 0, frame_count |-> 0, faces_detected |-> 0,
      audio_decodes |-> FALSE, audio_energy |-> 0, cv_error |-> e,
      footage |-> "none"] : e \in BOOLEAN}

Openable ==
    {v \in [openable : {TRUE}, fps : FrameRates, frame_count : FrameCounts,
            faces_detected : FaceCounts, audio_decodes : BOOLEAN,
            audio_energy : AudioEnergies, cv_error : BOOLEAN, footage : Footages] :
        /\ v.faces_detected <= SampledFrames(v)
        /\ ~v.audio_decodes => v.audio_energy = 0}

Videos == Unopenable \cup Openable

(***************************************************************************)
(* _validate_video_quality, lines 201-299.  Issues and recommendations     *)
(* are named by a tag each instead of their text.                          *)
(***************************************************************************)
\* lines 293-297 without line 295: is_valid stays as initialised
validation_error_still_valid(dur) ==
    [is_valid |-> TRUE, duration |-> dur, face_detection_ratio |-> 0,
     has_audio |-> FALSE, audio_energy |-> 0, issues |-> <<"error">>,
     recommendations |-> <<>>, suggested_score |-> 0]

\* lines 293-297: the report the except clause leaves
validation_error(dur) ==
    [is_valid |-> FALSE, duration |-> dur, face_detection_ratio |-> 0,
     has_audio |-> FALSE, audio_energy |-> 0, issues |-> <<"error">>,
     recommendations |-> <<>>, suggested_score |-> 0]

\* line 269: 3.0 whatever the duration
duration_score_flat(frame_count, fps) == 300

\* line 269: min(3.0, duration / 10 * 3.0), for a duration of frame_count / fps
duration_score(frame_count, fps) ==
    Min(300, (frame_count * 300) \div (fps * MIN_VIDEO_DURATION))

\* lines 286-287 without the test of the number of issues
multi_issue_cap_skipped(issues, suggested_score) == suggested_score

\* lines 286-287: several issues lower the score to 2.5 at most
multi_issue_cap(issues, suggested_score) ==
    IF Len(issues) >= 2 THEN Min(suggested_score, 250) ELSE suggested_score

\* lines 276 and 283 assigning 2.0 instead of the larger of the two
score_floor_assigned(suggested_score) == 200

\* lines 276 and 283: max(suggested_score, 2.0)
score_floor(suggested_score) == Max(suggested_score, 200)

validate_video_quality(v) ==
    LET fps == FpsOr30(v)
        frame_count == v.frame_count
        frames_checked == SampledFrames(v)
        ratio == IF frames_checked > 0
                 THEN Round(v.faces_detected * 100, frames_checked) ELSE 0
        audio_energy == IF v.audio_decodes THEN v.audio_energy ELSE 0
        has_audio == v.audio_decodes /\ audio_energy > MIN_AUDIO_ENERGY
        too_short == frame_count < MIN_VIDEO_DURATION * fps
        no_face == ratio < MIN_FACE_DETECTION_RATIO
        no_audio == ~has_audio \/ audio_energy < MIN_AUDIO_ENERGY
        s1 == IF too_short THEN duration_score(frame_count, fps) ELSE 0
        s2 == IF no_face THEN score_floor(s1) ELSE s1
        s3 == IF no_audio THEN score_floor(s2) ELSE s2
        issues == (IF too_short THEN <<"too_short">> ELSE <<>>)
                  \o (IF no_face THEN <<"no_face">> ELSE <<>>)
                  \o (IF no_audio THEN <<"no_audio">> ELSE <<>>)
        is_valid == ~too_short /\ ~no_face /\ ~no_audio
        recs == (IF too_short THEN <<"record_longer", "typical_length">> ELSE <<>>)
                \o (IF no_face THEN <<"face_visible", "good_lighting">> ELSE <<>>)
                \o (IF no_audio THEN <<"speak_clearly", "audio_settings">> ELSE <<>>)
                \o (IF ~is_valid THEN <<"record_again">> ELSE <<>>)
    IN  IF v.cv_error
        THEN validation_error(Round(frame_count * 100, fps))
        ELSE [is_valid |-> is_valid,
              duration |-> Round(frame_count * 100, fps),
              face_detection_ratio |-> ratio,
              has_audio |-> has_audio,
              audio_energy |-> audio_energy,
              issues |-> issues,
              recommendations |-> recs,
              suggested_score |-> multi_issue_cap(issues, s3)]

(***************************************************************************)
(* The modality analyzers.  Each takes what its frame walk gathered and    *)
(* builds its summary as the code does; fails says that an exception left  *)
(* the walk, which the analyzer's own except clause catches.  A summary    *)
(* keeps the keys the score calculators, the timeline and the              *)
(* recommendation rules read, and error for the "error" key.               *)
(***************************************************************************)
\* {}: the value results holds for a modality that was not analysed
EmptyDict == [empty |-> TRUE]

\* how a frame walk ends: "complete" when it read every frame, "no_frame"
\* when cap.read gave no frame at the failing frame and the loop broke there,
\* "raises" when a call made on the failing frame raised
WalkOutcomes == {"complete", "no_frame", "raises"}

\* the failing frame of the emotion walk, counted in sampled frames
FailingSample == 3

\* the most frames in which the validator's walk finds a face
MaxFaces == 30

\* the failing frame of the eye-tracking walk
FailingFrame(v) == (v.frame_count * 2) \div 3

\* the sampled frames the emotion walk reached
Visited(walk, outcome) ==
    IF outcome = "complete" THEN walk
    ELSE SubSeq(walk, 1, Min(Len(walk), FailingSample - 1))

\* the video as far as the eye-tracking walk read it
Watched(v, outcome) ==
    IF outcome = "complete" THEN v ELSE [v EXCEPT !.frame_count = FailingFrame(v)]

\* lines 332, in the order the summary is filled
emotion_keys == <<"angry", "disgust", "fear", "happy", "sad", "surprise", "neutral">>

Emotions(fear, happy, sad, surprise, neutral) ==
    [angry |-> 0, disgust |-> 0, fear |-> fear, happy |-> happy, sad |-> sad,
     surprise |-> surprise, neutral |-> neutral]

\* what the detector reports of one sampled frame, in hundredths; NoFace is
\* its empty result
NoFace == Emotions(0, 0, 0, 0, 0)

Bright == Emotions(0, 80, 0, 0, 20)

Calm == Emotions(0, 40, 0, 10, 50)

Tense == Emotions(40, 0, 30, 10, 20)

\* the detector's results on the sampled frames of a video
EmotionWalk(v) ==
    IF v.footage = "engaged" THEN <<Bright, Bright, Calm, Calm>>
    ELSE <<Calm, NoFace, Tense>>

\* lines 310-326: the sampled frames with a detection; frame i is the 30*i-th
\* frame, its timestamp i seconds
RECURSIVE emotions_timeline(_, _, _)
emotions_timeline(self, walk, n) ==
    IF n = 0 THEN <<>>
    ELSE LET before == emotions_timeline(self, walk, n - 1)
         IN  IF self.emotion_detector /\ walk[n] # NoFace
             THEN Append(before, [timestamp |-> n - 1, emotions |-> walk[n]])
             ELSE before

\* max(emotion_summary.items(), key=average)[0]: the first key of the largest average
dominant(emotion_summary, n) ==
    LET average(i) == emotion_summary[emotion_keys[i]]
        first == CHOOSE i \in 1..n :
                    /\ \A j \in 1..(i - 1) : average(j) < average(i)
                    /\ \A j \in (i + 1)..n : average(j) <= average(i)
    IN  emotion_keys[first]

\* lines 301-349, without the except clause of line 347
analyze_emotions_uncaught(self, walk, fails) ==
    LET timeline == emotions_timeline(self, walk, Len(walk))
        average(key) == SumSeq([i \in 1..Len(timeline) |-> timeline[i].emotions[key]])
                            \div Len(timeline)
        emotion_summary == [key \in Range(emotion_keys) |-> average(key)]
    IN  IF fails
        THEN [raised |-> TRUE]
        ELSE [error |-> FALSE,
              summary |-> IF timeline # <<>> THEN <<emotion_summary>> ELSE <<>>,
              dominant_emotion |-> IF timeline # <<>>
                                   THEN dominant(emotion_summary, Len(emotion_keys))
                                   ELSE "neutral",
              timeline |-> [i \in 1..Len(LastN(timeline, 10)) |->
                                LastN(timeline, 10)[i].timestamp]]

\* lines 301-349
analyze_emotions(self, walk, fails) ==
    LET timeline == emotions_timeline(self, walk, Len(walk))
        average(key) == SumSeq([i \in 1..Len(timeline) |-> timeline[i].emotions[key]])
                            \div Len(timeline)
        emotion_summary == [key \in Range(emotion_keys) |-> average(key)]
    IN  IF fails
        THEN [error |-> TRUE, summary |-> <<>>, dominant_emotion |-> "neutral",
              timeline |-> <<>>]
        ELSE [error |-> FALSE,
              summary |-> IF timeline # <<>> THEN <<emotion_summary>> ELSE <<>>,
              dominant_emotion |-> IF timeline # <<>>
                                   THEN dominant(emotion_summary, Len(emotion_keys))
                                   ELSE "neutral",
              timeline |-> [i \in 1..Len(LastN(timeline, 10)) |->
                                LastN(timeline, 10)[i].timestamp]]

\* lines 375-383: the occurrences of each gaze direction, then their percentages
GazeDirection(center, left, right, up, down) ==
    [center |-> center, left |-> left, right |-> right, up |-> up, down |-> down]

\* lines 375-383 and 624-637: the summaries before any frame is read
eye_data == [gaze_direction |-> GazeDirection(0, 0, 0, 0, 0),
             eye_contact_percentage |-> 0, blink_rate |-> 0, gaze_stability |-> 0,
             attention_score |-> 0, timeline |-> <<>>, error |-> FALSE]

attention_data == [focus_percentage |-> 0, distraction_count |-> 0,
                   head_pose_stability |-> 0, looking_away_duration |-> 0,
                   attention_timeline |-> <<>>, error |-> FALSE]

\* what the eye-tracking walk gathered in the frames it read, every fifth of
\* which it sampled: frames with landmarks, the occurrences of each gaze
\* direction among them, those gazing at the centre, blinks, the variance of
\* the gaze offsets in ten-thousandths and the seconds at which a timeline
\* entry was stored
Steady(sampled) ==
    LET center == (sampled * 9) \div 10
    IN  [total_analyzed |-> sampled,
         gaze_direction |-> GazeDirection(center, sampled - center, 0, 0, 0),
         eye_contact_frames |-> center, blink_counter |-> sampled \div 20,
         gaze_variance |-> 100, timeline |-> <<1, 2>>]

Darting(sampled) ==
    LET center == (sampled * 2) \div 5
        left == sampled \div 5
    IN  [total_analyzed |-> sampled,
         gaze_direction |-> GazeDirection(center, left, left, 0, sampled - center - 2 * left),
         eye_contact_frames |-> center, blink_counter |-> sampled \div 10,
         gaze_variance |-> 600, timeline |-> <<2, 3>>]

EyeWalk(v) ==
    IF v.footage = "engaged" THEN Steady(v.frame_count \div 5)
    ELSE Darting(v.frame_count \div 5)

\* lines 435-437: the histogram while it holds occurrences, in hundredths
gaze_counts(counts) == [d \in DOMAIN counts |-> counts[d] * 100]

\* lines 477-484: the share of each direction among the counted ones, in
\* hundredths of a percent
gaze_percentages(counts) ==
    LET total_gaze == counts.center + counts.left + counts.right + counts.up + counts.down
    IN  IF total_gaze > 0
        THEN [d \in DOMAIN counts |-> Round(counts[d] * 10000, total_gaze)]
        ELSE gaze_counts(counts)

\* lines 367-484
analyze_eye_tracking(self, v, walk, fails) ==
    LET pct == Round(walk.eye_contact_frames * 10000, walk.total_analyzed)
        stability == Round(Max(0, 1000 - walk.gaze_variance), 10)
    IN  IF ~self.face_mesh THEN eye_data
        ELSE IF fails
        THEN [eye_data EXCEPT !.error = TRUE, !.timeline = walk.timeline,
                              !.gaze_direction = gaze_counts(walk.gaze_direction)]
        ELSE IF walk.total_analyzed > 0
        THEN [gaze_direction |-> gaze_percentages(walk.gaze_direction),
              eye_contact_percentage |-> pct,
              blink_rate |-> (walk.blink_counter * 6000 * FpsOr30(v)) \div v.frame_count,
              gaze_stability |-> stability,
              attention_score |-> Round(pct * 7 + stability * 300, 1000),
              timeline |-> walk.timeline,
              error |-> FALSE]
        ELSE [eye_data EXCEPT !.timeline = walk.timeline,
                              !.gaze_direction = gaze_counts(walk.gaze_direction)]

\* what the facial walk found in the frames with a face: how many were off
\* the centre of the frame, and whether they smiled
FacialWalk(v) ==
    IF v.footage = "engaged" THEN [off_center |-> 0, smiling |-> TRUE]
    ELSE [off_center |-> 1, smiling |-> FALSE]

facial_data == [eye_contact |-> 0, smile_frequency |-> 0, face_detected_ratio |-> 0,
                error |-> FALSE]

\* lines 955-1018: every 30th frame is analysed
analyze_facial_features(v, walk, fails) ==
    LET total_analyzed == RangeLen(v.frame_count, 30)
        face_detected_frames == Min(v.faces_detected, total_analyzed)
        eye_contact_frames == Max(0, face_detected_frames - walk.off_center)
        smile_frames == IF walk.smiling THEN face_detected_frames ELSE 0
    IN  IF fails THEN [facial_data EXCEPT !.error = TRUE]
        ELSE IF total_analyzed > 0
        THEN [eye_contact |-> (eye_contact_frames * 100) \div total_analyzed,
              smile_frequency |-> (smile_frames * 100) \div total_analyzed,
              face_detected_ratio |-> (face_detected_frames * 100) \div total_analyzed,
              error |-> FALSE]
        ELSE facial_data

\* what the body walk measured between consecutive sampled frames: the mean
\* and the standard deviation of the frame differences
BodyWalk(v) ==
    IF v.footage = "engaged" THEN [avg_movement |-> 10, movement_std |-> 2]
    ELSE [avg_movement |-> 20, movement_std |-> 30]

body_data == [posture_score |-> 0, movement_level |-> "moderate", gestures_detected |-> 0,
              stability |-> 0, error |-> FALSE]

\* lines 1020-1082: movement_scores has an entry per sampled frame but the first
analyze_body_language(v, walk, fails) ==
    LET samples == RangeLen(v.frame_count, 30)
        level == IF walk.avg_movement < 5 THEN "minimal"
                 ELSE IF walk.avg_movement < 15 THEN "moderate" ELSE "active"
    IN  IF fails THEN [body_data EXCEPT !.error = TRUE, !.posture_score = 75]
        ELSE IF samples >= 2
        THEN [posture_score |-> IF level = "minimal" THEN 90
                                ELSE IF level = "moderate" THEN 85 ELSE 70,
              movement_level |-> level,
              \* max(0, int(duration / 10))
              gestures_detected |-> Max(0, v.frame_count \div (FpsOr30(v) * 10)),
              \* 1.0 - min(movement_std / 20, 1.0)
              stability |-> 100 - Min(walk.movement_std * 5, 100),
              error |-> FALSE]
        ELSE body_data

\* the rapid emotion changes the micro-expression walk counted
MicroWalk(v) == IF v.footage = "engaged" THEN 8 ELSE 2

micro_data == [detected_count |-> 0, error |-> FALSE]

\* lines 546-622
analyze_micro_expressions(self, detected_count, fails) ==
    IF ~self.deepface THEN micro_data
    ELSE IF fails THEN [micro_data EXCEPT !.error = TRUE]
    ELSE [micro_data EXCEPT !.detected_count = detected_count]

\* what the attention walk gathered: sampled frames with landmarks, those
\* facing forward, sampled frames without a face, the summed variance of yaw
\* and pitch, and the seconds at which a timeline entry was stored
Focused == [total_frames |-> 30, focused_frames |-> 27, distraction_count |-> 0,
            pose_variance |-> 100, attention_timeline |-> <<1, 2>>]

Distracted == [total_frames |-> 20, focused_frames |-> 10, distraction_count |-> 10,
               pose_variance |-> 500, attention_timeline |-> <<3>>]

AttentionWalk(v) == IF v.footage = "engaged" THEN Focused ELSE Distracted

\* lines 624-710
analyze_attention(self, v, walk, fails) ==
    LET looking_away_frames == (walk.total_frames - walk.focused_frames)
                                   + walk.distraction_count
    IN  IF ~self.face_mesh THEN attention_data
        ELSE IF fails THEN [attention_data EXCEPT !.error = TRUE]
        ELSE IF walk.total_frames > 0
        THEN [focus_percentage |-> Round(walk.focused_frames * 10000, walk.total_frames),
              distraction_count |-> walk.distraction_count,
              head_pose_stability |-> Round(Max(0, 1000 - walk.pose_variance), 10),
              looking_away_duration |-> Round(looking_away_frames * 100, FpsOr30(v)),
              attention_timeline |-> walk.attention_timeline,
              error |-> FALSE]
        ELSE [attention_data EXCEPT !.distraction_count = walk.distraction_count]

\* A transcription: whether the string is empty, its words, the occurrences
\* of filler words in it and the polarity TextBlob gives it, in thousandths
NoTranscript == [empty |-> TRUE, words |-> 0, fillers |-> 0, polarity |-> 0]

Fluent == [empty |-> FALSE, words |-> 25, fillers |-> 0, polarity |-> 500]

Hesitant == [empty |-> FALSE, words |-> 10, fillers |-> 4, polarity |-> -300]

\* the transcriptions a caller passes; Fluent is what the recogniser hears
Transcripts == {NoTranscript, Hesitant}

\* what the voice walk measured: the standard deviation of the pitch in
\* hundredths of a hertz, and what the recogniser hears when it is asked
VoiceWalk(v) ==
    IF v.footage = "engaged" THEN [pitch_std |-> 4000, heard |-> Fluent]
    ELSE [pitch_std |-> 1500, heard |-> NoTranscript]

voice_data(text) ==
    [pitch_std |-> 0, speech_rate |-> 0, total_filler_count |-> 0, clarity_score |-> 0,
     energy_level |-> "moderate", transcription |-> text, error |-> FALSE]

\* lines 774-883; the audio lasts as long as the video, with its mean energy
analyze_voice(self, v, text, walk, fails) ==
    LET spoken == IF text.empty /\ self.recognizer THEN walk.heard ELSE text
        energy_level == IF v.audio_energy < 200 THEN "low"
                        ELSE IF v.audio_energy > 500 THEN "high" ELSE "moderate"
        measured == [voice_data(spoken) EXCEPT !.pitch_std = walk.pitch_std,
                                               !.energy_level = energy_level]
    IN  IF fails THEN [voice_data(text) EXCEPT !.error = TRUE]
        ELSE IF spoken.empty THEN measured
        ELSE [measured EXCEPT
                !.total_filler_count = spoken.fillers,
                \* round((word_count / duration) * 60, 2), in hundredths
                !.speech_rate = IF v.frame_count > 0
                                THEN Round(spoken.words * 6000 * FpsOr30(v), v.frame_count)
                                ELSE 0,
                \* round(max(0, 1 - filler_ratio * 2), 2), or 0.8 without words
                !.clarity_score = IF spoken.words > 0
                                  THEN Round(Max(0, spoken.words - 2 * spoken.fillers) * 100,
                                             spoken.words)
                                  ELSE 80]

\* lines 1084-1105
analyze_sentiment(text) ==
    [label |-> IF text.polarity > 100 THEN "positive"
               ELSE IF text.polarity < -100 THEN "negative" ELSE "neutral",
     polarity |-> text.polarity]

\* a set of numbers as the ascending list sorted() makes of it
RECURSIVE sorted(_)
sorted(S) ==
    IF S = {} THEN <<>>
    ELSE LET least == CHOOSE x \in S : \A y \in S : x <= y
         IN  <<least>> \o sorted(S \ {least})

\* lines 885-926: an entry per distinct timestamp of the three timelines,
\* kept here by its timestamp, and at most 50 of them
generate_timeline(emotions, eye_tracking, attention) ==
    FirstN(sorted(Range(emotions.timeline) \cup Range(eye_tracking.timeline)
                    \cup Range(attention.attention_timeline)), 50)

(***************************************************************************)
(* The score calculators.  A score is summed in hundred-thousandths of a   *)
(* point and returned in hundredths.                                       *)
(***************************************************************************)
\* d.get(key) is not None
Has(d, key) == key \in DOMAIN d

\* d.get(key, default)
Get(d, key, default) == IF key \in DOMAIN d THEN d[key] ELSE default

\* round((score / max_possible) * 10, 2), or 0.0: the quotient as it is
normalized_score_unclamped(score, max_possible) ==
    IF max_possible > 0 THEN Round(score * 1000, max_possible) ELSE 0

\* round(max(0.0, min(10.0, (score / max_possible) * 10)), 2), or 0.0
normalized_score(score, max_possible) ==
    IF max_possible > 0
    THEN Max(0, Min(1000, Round(score * 1000, max_possible)))
    ELSE 0

\* lines 1107-1162
calculate_confidence_score(emotions, facial, body, voice_analysis) ==
    LET s == emotions.summary[1]
        with_emotions == Get(emotions, "summary", <<>>) # <<>>
        emotion_score == (s.happy * 2 + s.neutral) * 3500
                             - (s.fear * 2 * 3500 + s.sad * 5250)
        with_facial == Has(facial, "eye_contact")
        with_posture == Has(body, "posture_score")
        with_stability == Has(body, "stability")
        with_voice == voice_analysis # EmptyDict /\ Has(voice_analysis, "clarity_score")
        rate == Get(voice_analysis, "speech_rate", 0)
        with_rate == with_voice /\ rate > 0
        score == (IF with_emotions THEN Max(0, emotion_score) ELSE 0)
                 + (IF with_facial THEN facial.eye_contact * 2500 ELSE 0)
                 + (IF with_posture THEN body.posture_score * 1500 ELSE 0)
                 + (IF with_stability THEN body.stability * 500 ELSE 0)
                 + (IF with_voice THEN voice_analysis.clarity_score * 1500 ELSE 0)
                 + (IF with_rate
                    THEN IF 12000 <= rate /\ rate <= 16000 THEN 50000
                         ELSE IF 10000 <= rate /\ rate <= 18000 THEN 30000 ELSE 0
                    ELSE 0)
        max_possible == (IF with_emotions THEN 350000 ELSE 0)
                        + (IF with_facial THEN 250000 ELSE 0)
                        + (IF with_posture THEN 150000 ELSE 0)
                        + (IF with_stability THEN 50000 ELSE 0)
                        + (IF with_voice THEN 150000 ELSE 0)
                        + (IF with_rate THEN 50000 ELSE 0)
    IN  normalized_score(score, max_possible)

\* lines 1164-1208
calculate_professionalism_score(facial, body, eye_tracking) ==
    LET with_tracking == eye_tracking # EmptyDict
                             /\ Has(eye_tracking, "eye_contact_percentage")
        with_gaze == with_tracking /\ Has(eye_tracking, "gaze_stability")
        with_facial == ~with_tracking /\ Has(facial, "eye_contact")
        with_ratio == Has(facial, "face_detected_ratio")
        with_posture == Has(body, "posture_score")
        with_stability == Has(body, "stability")
        score == (IF with_tracking THEN eye_tracking.eye_contact_percentage * 35 ELSE 0)
                 + (IF with_gaze THEN eye_tracking.gaze_stability * 1500 ELSE 0)
                 + (IF with_facial THEN facial.eye_contact * 3500 ELSE 0)
                 + (IF with_ratio THEN facial.face_detected_ratio * 2000 ELSE 0)
                 + (IF with_posture THEN body.posture_score * 2000 ELSE 0)
                 + (IF with_stability THEN body.stability * 1000 ELSE 0)
        max_possible == (IF with_tracking THEN 350000 ELSE 0)
                        + (IF with_gaze THEN 150000 ELSE 0)
                        + (IF with_facial THEN 350000 ELSE 0)
                        + (IF with_ratio THEN 200000 ELSE 0)
                        + (IF with_posture THEN 200000 ELSE 0)
                        + (IF with_stability THEN 100000 ELSE 0)
    IN  normalized_score(score, max_possible)

\* lines 1210-1265
calculate_engagement_score(emotions, facial, body, attention) ==
    LET s == emotions.summary[1]
        with_emotions == Get(emotions, "summary", <<>>) # <<>>
        with_smile == Has(facial, "smile_frequency")
        with_focus == attention # EmptyDict /\ Has(attention, "focus_percentage")
        distraction_count == Get(attention, "distraction_count", 0)
        with_movement == Has(body, "movement_level") /\ body.movement_level # ""
        with_gestures == Has(body, "gestures_detected")
        score == (IF with_emotions THEN (s.happy + s.surprise) * 3500 ELSE 0)
                 + (IF with_smile THEN facial.smile_frequency * 2000 ELSE 0)
                 + (IF with_focus
                    THEN attention.focus_percentage * 20
                         + (IF distraction_count < 3 THEN 50000
                            ELSE IF distraction_count < 7 THEN 25000 ELSE 0)
                    ELSE 0)
                 + (IF with_movement
                    THEN IF body.movement_level = "moderate" THEN 100000
                         ELSE IF body.movement_level = "active" THEN 70000
                         ELSE IF body.movement_level = "minimal" THEN 30000 ELSE 0
                    ELSE 0)
                 + (IF with_gestures THEN Min(body.gestures_detected * 20000, 100000) ELSE 0)
        max_possible == (IF with_emotions THEN 350000 ELSE 0)
                        + (IF with_smile THEN 200000 ELSE 0)
                        + (IF with_focus THEN 250000 ELSE 0)
                        + (IF with_movement THEN 100000 ELSE 0)
                        + (IF with_gestures THEN 100000 ELSE 0)
    IN  normalized_score(score, max_possible)

\* lines 928-953: summed in thousandths of a point from 5.0
calculate_authenticity_score(micro, emotions, voice_analysis) ==
    LET micro_count == Get(micro, "detected_count", 0)
        with_voice == voice_analysis # EmptyDict
        pitch_std == Get(voice_analysis, "pitch_std", 0)
        score == 5000
                 + (IF 5 <= micro_count /\ micro_count <= 20 THEN 2000
                    ELSE IF micro_count > 20 THEN 1000 ELSE -1000)
                 + (IF with_voice /\ 2000 < pitch_std /\ pitch_std < 8000
                    THEN 1500 ELSE 0)
                 + (IF with_voice THEN Get(voice_analysis, "clarity_score", 0) * 15 ELSE 0)
    IN  Round(Max(0, Min(10000, score)), 10)

(***************************************************************************)
(* _generate_recommendations, lines 1267-1371.  A recommendation is named  *)
(* by a tag instead of its text.                                           *)
(***************************************************************************)
When(condition, tag) == IF condition THEN <<tag>> ELSE <<>>

\* lines 1272-1285
eye_tracking_rules(r) ==
    LET eye_tracking == r.eye_tracking
        blink_rate == Get(eye_tracking, "blink_rate", 0)
    IN  When(Get(eye_tracking, "eye_contact_percentage", 0) < 6000, "improve_eye_contact")
        \o (IF blink_rate > 3000 THEN <<"high_blink_rate">>
            ELSE IF blink_rate < 1000 THEN <<"low_blink_rate">> ELSE <<>>)
        \o When(Get(eye_tracking, "gaze_stability", 0) < 60, "steadier_gaze")

\* lines 1294-1298
speech_rate_rule(speech_rate) ==
    IF speech_rate > 16000 THEN <<"slow_down">>
    ELSE IF speech_rate < 10000 /\ speech_rate > 0
    THEN <<"speak_faster">> ELSE <<>>

\* lines 1287-1305
voice_rules(r) ==
    LET voice == r.voice_analysis
    IN  IF voice # EmptyDict
        THEN When(Get(voice, "total_filler_count", 0) > 10, "reduce_fillers")
             \o speech_rate_rule(Get(voice, "speech_rate", 0))
             \o When(Get(voice, "energy_level", "moderate") = "low", "vocal_energy")
             \o When(Get(voice, "clarity_score", 0) < 70, "speech_clarity")
        ELSE <<>>

\* lines 1307-1349: attention, micro-expressions, the scores, face and body
score_rules(r) ==
    LET attention == r.attention_metrics
        body == r.body_language
    IN  When(Get(attention, "focus_percentage", 0) < 7000, "better_focus")
        \o When(Get(attention, "distraction_count", 0) > 5, "minimize_distractions")
        \o When(Get(r.micro_expressions, "detected_count", 0) > 25, "nervous_micro")
        \o When(r.confidence_score < 600, "build_confidence")
        \o When(r.authenticity_score < 600, "be_authentic")
        \o When(Get(r.facial_analysis, "smile_frequency", 0) < 20, "smile_more")
        \o (IF Get(body, "movement_level", "") = "minimal" THEN <<"use_gestures">>
            ELSE IF Get(body, "movement_level", "") = "active"
            THEN <<"reduce_movement">> ELSE <<>>)
        \o When(Get(body, "posture_score", 0) < 70, "improve_posture")
        \o When(r.engagement_score < 600, "show_enthusiasm")
        \o When(r.professionalism_score < 700, "enhance_professionalism")

\* lines 1351-1354
sentiment_rule(r) == When(Get(r.sentiment, "label", "") = "negative", "frame_positively")

\* lines 1357-1364: recommendations.insert(0, banner)
with_banner(r, recommendations) ==
    IF r.confidence_score >= 800 /\ r.professionalism_score >= 800
           /\ r.engagement_score >= 800
    THEN <<"outstanding">> \o recommendations
    ELSE IF r.confidence_score >= 700 /\ r.professionalism_score >= 700
    THEN <<"great_job">> \o recommendations ELSE recommendations

\* the statement of the try block that raises, lines 1271-1364: the first
\* one, the sentiment rule, or none
RuleFaults == {"none", "eye_tracking", "sentiment"}

\* line 1371 without the slice
top_eight_whole(recommendations) == recommendations

\* line 1371: recommendations[:8]
top_eight(recommendations) == FirstN(recommendations, 8)

\* fault names the statement that raises; the except clause of lines
\* 1366-1368 appends one message to what the rules before it appended
generate_recommendations(r, fault) ==
    LET rules == eye_tracking_rules(r) \o voice_rules(r) \o score_rules(r)
    IN  IF fault = "eye_tracking"
        THEN top_eight(<<"keep_practicing">>)
        ELSE IF fault = "sentiment"
        THEN top_eight(rules \o <<"keep_practicing">>)
        ELSE top_eight(with_banner(r, rules \o sentiment_rule(r)))

(***************************************************************************)
(* _extract_audio, lines 351-365.  outcome says how far the extraction     *)
(* gets: "no_clip" when VideoFileClip raises, "write_error" when           *)
(* write_audiofile raises before it creates the file, "partial_file" when  *)
(* it raises after it created it, "close_error" when video.close() raises  *)
(* after the file was written, "written" when nothing raises.  The         *)
(* operator gives the value returned and whether the file exists then.     *)
(***************************************************************************)
ExtractOutcomes == {"no_clip", "write_error", "partial_file", "close_error", "written"}

None == "None"

TempWav == "tmp.wav"

extract_audio(v, outcome) ==
    IF outcome = "no_clip" THEN [audio_path |-> None, file_exists |-> FALSE]
    ELSE IF ~v.audio_decodes THEN [audio_path |-> None, file_exists |-> FALSE]
    ELSE IF outcome = "write_error" THEN [audio_path |-> None, file_exists |-> FALSE]
    ELSE IF outcome \in {"partial_file", "close_error"}
    THEN [audio_path |-> None, file_exists |-> TRUE]
    ELSE [audio_path |-> TempWav, file_exists |-> TRUE]

(***************************************************************************)
(* analyze_video, lines 95-199, a step at a time.  pc names the statement  *)
(* to run next; stages records the stages entered: Created, Validating,    *)
(* Invalid, Extracting, Fusing and Done, and Aborted for a run that the    *)
(* outer except clause of line 195 ended.                                  *)
(***************************************************************************)
\* the value of a call that an exception left instead of a return
Raised == [raised |-> TRUE]

\* VideoAnalyzer.__init__, lines 62-93: the optional libraries that loaded
VideoAnalyzer(fer, mediapipe, deepface, speech_recognition) ==
    [emotion_detector |-> fer, face_mesh |-> mediapipe, deepface |-> deepface,
     recognizer |-> speech_recognition]

Analyzers == {VideoAnalyzer(TRUE, TRUE, TRUE, TRUE), VideoAnalyzer(TRUE, FALSE, TRUE, TRUE),
              VideoAnalyzer(TRUE, TRUE, FALSE, TRUE),
              VideoAnalyzer(FALSE, FALSE, FALSE, FALSE)}

\* lines 106-121; sentiment and error stand for keys that are absent
InitialResults ==
    [emotions |-> EmptyDict, facial_analysis |-> EmptyDict, eye_tracking |-> EmptyDict,
     voice_analysis |-> EmptyDict, body_language |-> EmptyDict,
     micro_expressions |-> EmptyDict, attention_metrics |-> EmptyDict,
     confidence_score |-> 0, professionalism_score |-> 0, engagement_score |-> 0,
     authenticity_score |-> 0, recommendations |-> <<>>, timeline |-> <<>>,
     validation |-> EmptyDict, sentiment |-> EmptyDict, error |-> FALSE]

Init ==
    /\ video \in Videos
    /\ analyzer \in Analyzers
    /\ transcription \in Transcripts
    /\ pc = "created"
    /\ stages = <<"Created">>
    /\ results = EmptyDict
    /\ audio_path = None
    /\ temp_audio = FALSE
    /\ realtime_analyzer = <<>>
    /\ result = NoResult
    /\ summary = NoSummary
    /\ last_call = "none"
    /\ calls = 0
    /\ arrived = <<>>
    /\ wiped = FALSE
    /\ ws = [c \in Conns |-> Handler("unused")]
    /\ session = [c \in Conns |-> NoSession]

\* lines 195-199: the outer except clause, then the return
Abort ==
    /\ results' = [results EXCEPT !.error = TRUE]
    /\ pc' = "returned"
    /\ stages' = Append(stages, "Aborted")

\* results[key] = value and on to the next statement, or the except clause
\* when the call raised
Assign(key, value, next) ==
    IF value = Raised
    THEN Abort
    ELSE /\ results' = [results EXCEPT ![key] = value]
         /\ pc' = next
         /\ UNCHANGED stages

\* lines 130-134: the early result of an invalid video
invalid_result_two_scores(r, validation) ==
    [r EXCEPT !.validation = validation,
              !.confidence_score = validation.suggested_score,
              !.professionalism_score = validation.suggested_score,
              !.recommendations = validation.recommendations]

invalid_result(r, validation) ==
    [r EXCEPT !.validation = validation,
              !.confidence_score = validation.suggested_score,
              !.professionalism_score = validation.suggested_score,
              !.engagement_score = validation.suggested_score,
              !.recommendations = validation.recommendations]

\* lines 106-123: the call, up to the try
AnalyzeVideo ==
    /\ pc = "created"
    /\ results' = InitialResults
    /\ pc' = "validate"
    /\ stages' = Append(stages, "Validating")
    /\ UNCHANGED <<video, analyzer, transcription, audio_path, temp_audio, rt_vars, ws_vars>>

\* lines 125-134
ValidateVideoQuality ==
    /\ pc = "validate"
    /\ LET validation == validate_video_quality(video)
       IN  IF validation = Raised
           THEN Abort
           ELSE IF ~validation.is_valid
           THEN /\ results' = invalid_result(results, validation)
                /\ pc' = "returned"
                /\ stages' = Append(stages, "Invalid")
           ELSE /\ results' = [results EXCEPT !.validation = validation]
                /\ pc' = "extract_audio"
                /\ stages' = Append(stages, "Extracting")
    /\ UNCHANGED <<video, analyzer, transcription, audio_path, temp_audio, rt_vars, ws_vars>>

\* line 136
ExtractAudio ==
    /\ pc = "extract_audio"
    /\ \E outcome \in ExtractOutcomes :
        LET extracted == extract_audio(video, outcome)
        IN  IF extracted = Raised
            THEN Abort /\ UNCHANGED <<audio_path, temp_audio>>
            ELSE /\ audio_path' = extracted.audio_path
                 /\ temp_audio' = extracted.file_exists
                 /\ pc' = "emotions"
                 /\ UNCHANGED <<results, stages>>
    /\ UNCHANGED <<video, analyzer, transcription, rt_vars, ws_vars>>

\* lines 139-140
AnalyzeEmotions ==
    /\ pc = "emotions"
    /\ \E outcome \in WalkOutcomes :
        Assign("emotions",
               analyze_emotions(analyzer, Visited(EmotionWalk(video), outcome),
                                outcome = "raises"),
               "eye_tracking")
    /\ UNCHANGED <<video, analyzer, transcription, audio_path, temp_audio, rt_vars, ws_vars>>

\* lines 143-144
AnalyzeEyeTracking ==
    /\ pc = "eye_tracking"
    /\ \E outcome \in WalkOutcomes :
        LET watched == Watched(video, outcome)
        IN  Assign("eye_tracking",
                   analyze_eye_tracking(analyzer, watched, EyeWalk(watched),
                                        outcome = "raises"),
                   "facial")
    /\ UNCHANGED <<video, analyzer, transcription, audio_path, temp_audio, rt_vars, ws_vars>>

\* lines 147-148
AnalyzeFacialFeatures ==
    /\ pc = "facial"
    /\ \E fails \in BOOLEAN :
        Assign("facial_analysis",
               analyze_facial_features(video, FacialWalk(video), fails), "micro")
    /\ UNCHANGED <<video, analyzer, transcription, audio_path, temp_audio, rt_vars, ws_vars>>

\* lines 151-152
AnalyzeMicroExpressions ==
    /\ pc = "micro"
    /\ \E fails \in BOOLEAN :
        Assign("micro_expressions",
               analyze_micro_expressions(analyzer, MicroWalk(video), fails), "body")
    /\ UNCHANGED <<video, analyzer, transcription, audio_path, temp_audio, rt_vars, ws_vars>>

\* lines 155-156
AnalyzeBodyLanguage ==
    /\ pc = "body"
    /\ \E fails \in BOOLEAN :
        Assign("body_language",
               analyze_body_language(video, BodyWalk(video), fails), "attention")
    /\ UNCHANGED <<video, analyzer, transcription, audio_path, temp_audio, rt_vars, ws_vars>>

\* lines 159-160
AnalyzeAttention ==
    /\ pc = "attention"
    /\ \E fails \in BOOLEAN :
        Assign("attention_metrics",
               analyze_attention(analyzer, video, AttentionWalk(video), fails), "voice")
    /\ UNCHANGED <<video, analyzer, transcription, audio_path, temp_audio, rt_vars, ws_vars>>

\* lines 163-169, with the voice summary's initial values stored for a run
\* without an audio path
AnalyzeVoice_default_voice ==
    /\ pc = "voice"
    /\ IF audio_path # None
       THEN \E fails \in BOOLEAN :
               LET voice == analyze_voice(analyzer, video, transcription,
                                          VoiceWalk(video), fails)
               IN  /\ Assign("voice_analysis", voice, "scores")
                   /\ transcription' =
                          IF voice # Raised /\ transcription.empty
                                 /\ ~voice.transcription.empty
                          THEN voice.transcription ELSE transcription
       ELSE /\ results' = [results EXCEPT !.voice_analysis = voice_data(transcription)]
            /\ pc' = "scores"
            /\ UNCHANGED <<stages, transcription>>
    /\ UNCHANGED <<video, analyzer, audio_path, temp_audio, rt_vars, ws_vars>>

\* lines 163-169
AnalyzeVoice ==
    /\ pc = "voice"
    /\ IF audio_path # None
       THEN \E fails \in BOOLEAN :
               LET voice == analyze_voice(analyzer, video, transcription,
                                          VoiceWalk(video), fails)
               IN  /\ Assign("voice_analysis", voice, "scores")
                   /\ transcription' =
                          IF voice # Raised /\ transcription.empty
                                 /\ ~voice.transcription.empty
                          THEN voice.transcription ELSE transcription
       ELSE /\ pc' = "scores"
            /\ UNCHANGED <<results, stages, transcription>>
    /\ UNCHANGED <<video, analyzer, audio_path, temp_audio, rt_vars, ws_vars>>

\* lines 172-175
calculate_scores(r) ==
    [r EXCEPT
        !.confidence_score = calculate_confidence_score(
            r.emotions, r.facial_analysis, r.body_language, r.voice_analysis),
        !.professionalism_score = calculate_professionalism_score(
            r.facial_analysis, r.body_language, r.eye_tracking),
        !.engagement_score = calculate_engagement_score(
            r.emotions, r.facial_analysis, r.body_language, r.attention_metrics),
        !.authenticity_score = calculate_authenticity_score(
            r.micro_expressions, r.emotions, r.voice_analysis)]

CalculateScores ==
    /\ pc = "scores"
    /\ results' = calculate_scores(results)
    /\ pc' = "sentiment"
    /\ stages' = Append(stages, "Fusing")
    /\ UNCHANGED <<video, analyzer, transcription, audio_path, temp_audio, rt_vars, ws_vars>>

\* lines 178-183: the sentiment of a transcription, and the timeline
AnalyzeSentiment ==
    /\ pc = "sentiment"
    /\ results' = [results EXCEPT
            !.sentiment = IF ~transcription.empty
                          THEN analyze_sentiment(transcription) ELSE @,
            !.timeline = generate_timeline(results.emotions, results.eye_tracking,
                                           results.attention_metrics)]
    /\ pc' = "recommendations"
    /\ UNCHANGED <<video, analyzer, transcription, stages, audio_path, temp_audio,
                   rt_vars, ws_vars>>

\* line 186
GenerateRecommendations ==
    /\ pc = "recommendations"
    /\ \E fault \in RuleFaults :
        results' = [results EXCEPT
            !.recommendations = generate_recommendations(results, fault)]
    /\ pc' = "cleanup"
    /\ UNCHANGED <<video, analyzer, transcription, stages, audio_path, temp_audio,
                   rt_vars, ws_vars>>

\* lines 188-199: os.remove, whose failure is ignored, and the return
Cleanup ==
    /\ pc = "cleanup"
    /\ \E remove_fails \in BOOLEAN :
        temp_audio' = IF audio_path # None /\ temp_audio THEN remove_fails ELSE temp_audio
    /\ pc' = "returned"
    /\ stages' = Append(stages, "Done")
    /\ UNCHANGED <<video, analyzer, transcription, results, audio_path, rt_vars, ws_vars>>

Next ==
    \/ AnalyzeVideo
    \/ ValidateVideoQuality
    \/ ExtractAudio
    \/ AnalyzeEmotions
    \/ AnalyzeEyeTracking
    \/ AnalyzeFacialFeatures
    \/ AnalyzeMicroExpressions
    \/ AnalyzeBodyLanguage
    \/ AnalyzeAttention
    \/ AnalyzeVoice
    \/ CalculateScores
    \/ AnalyzeSentiment
    \/ GenerateRecommendations
    \/ Cleanup

Spec == Init /\ [][Next]_vars

(***************************************************************************)
(* Properties of the batch pipeline.                                       *)
(***************************************************************************)
Last(s) == s[Len(s)]

IsPrefix(s, t) == Len(s) <= Len(t) /\ SubSeq(t, 1, Len(s)) = s

Modalities == {"emotions", "facial_analysis", "eye_tracking", "voice_analysis",
               "body_language", "micro_expressions", "attention_metrics"}

\* C7: when the validation reports is_valid = false, analyze_video returns
\* straight from the validation stage, without audio extraction, modality
\* analysis, fusion, timeline or generated recommendations; the confidence,
\* professionalism and engagement scores it returns all equal the
\* validation's suggested_score and its recommendations are the validator's.
C7_InvalidEarlyReturn ==
    LET validation == validate_video_quality(video)
    IN  (pc = "returned" /\ ~validation.is_valid) =>
            /\ stages = <<"Created", "Validating", "Invalid">>
            /\ results.validation = validation
            /\ results.confidence_score = validation.suggested_score
            /\ results.professionalism_score = validation.suggested_score
            /\ results.engagement_score = validation.suggested_score
            /\ results.recommendations = validation.recommendations
            /\ \A m \in Modalities : results[m] = EmptyDict
            /\ results.authenticity_score = 0
            /\ results.timeline = <<>>
            /\ results.sentiment = EmptyDict
            /\ audio_path = None
            /\ ~temp_audio

\* an invalid video with a suggested score above zero has returned
C7_Witness ==
    /\ pc = "returned"
    /\ Last(stages) = "Invalid"
    /\ results.validation.suggested_score > 0
    /\ results.engagement_score = results.validation.suggested_score
    /\ Len(results.recommendations) >= 3

PipelinePaths == {<<"Created", "Validating", "Invalid">>,
                  <<"Created", "Validating", "Extracting", "Fusing", "Done">>}

ScoreFields == {"confidence_score", "professionalism_score", "engagement_score",
                "authenticity_score"}

\* the stages entered so far begin one of the two paths, and a run that has
\* returned went through one of them and carries its scores
FollowsPipeline ==
    /\ \E path \in PipelinePaths : IsPrefix(stages, path)
    /\ pc = "returned" =>
        /\ stages \in PipelinePaths
        /\ validate_video_quality(video).is_valid => Last(stages) = "Done"
        /\ ~results.error
        /\ ScoreFields \subseteq DOMAIN results
        /\ \A f \in ScoreFields : results[f] \in 0..1000
        /\ DOMAIN results.recommendations = 1..Len(results.recommendations)

\* analyze_video runs to its return: nothing it waits for can keep a step
\* from being taken
FairSpec == Init /\ [][Next]_vars /\ WF_vars(Next)

\* C8: the stages of a run follow Created, Validating, then either Invalid or
\* Extracting, Fusing, Done; whichever modality analyzers fail internally,
\* every run returns, a run of a valid video returns from Done, no run ends
\* in the outer except clause, and the result returned carries the four
\* score fields and a recommendations list.
C8_FailSoft == []FollowsPipeline /\ <>(pc = "returned")

\* a run in which every modality analyzer failed internally has returned
\* from Done
C8_Witness ==
    /\ pc = "returned"
    /\ Last(stages) = "Done"
    /\ \A m \in Modalities : results[m] # EmptyDict /\ results[m].error

\* C9: for a file that cannot be opened, the result returned has its error
\* field populated and carries no score: the three primary scores are not
\* set from a suggested score.
C9_UnopenableIsError ==
    (pc = "returned" /\ ~video.openable) =>
        /\ results.error
        /\ results.confidence_score = 0
        /\ results.professionalism_score = 0
        /\ results.engagement_score = 0

\* C10: when analyze_video has returned, the temporary audio file that
\* _extract_audio created no longer exists.
C10_TempAudioRemoved == pc = "returned" => ~temp_audio

(***************************************************************************)
(* Properties of the fusion: which modalities enter a composite score.     *)
(***************************************************************************)
\* a run that went through every stage has returned
Fused == pc = "returned" /\ Last(stages) = "Done"

\* the frames the facial and the body walk sample: every 30th
WalkSamples == RangeLen(video.frame_count, 30)

\* C11: in the confidence score of a run, a facial analysis that raised or
\* analysed no frame, a body analysis that raised or sampled fewer than two
\* frames and a voice analysis without a transcript are left out of the
\* weighted sum and of max_possible: the score is the one computed from the
\* remaining modalities alone.
C11_FailedModalityExcluded ==
    Fused =>
        LET facial == results.facial_analysis
            body == results.body_language
            voice == results.voice_analysis
            facial_failed == facial.error \/ WalkSamples = 0
            body_failed == body.error \/ WalkSamples < 2
            voice_failed == voice = EmptyDict \/ voice.transcription.empty
        IN  results.confidence_score =
                calculate_confidence_score(
                    results.emotions,
                    IF facial_failed THEN EmptyDict ELSE facial,
                    IF body_failed THEN EmptyDict ELSE body,
                    IF voice_failed THEN EmptyDict ELSE voice)

\* C12: when the analyzer has no face mesh, the professionalism score of a
\* run is the one computed without eye tracking: its eye-contact term is the
\* facial eye_contact with weight 3.5 and no gaze_stability weight is added.
C12_FallbackWithoutEyeTracking ==
    (Fused /\ ~analyzer.face_mesh) =>
        results.professionalism_score =
            calculate_professionalism_score(results.facial_analysis,
                                            results.body_language, EmptyDict)

\* the weighted sum of the modalities other than voice, in hundred-thousandths
RemainingSum(r) ==
    LET s == r.emotions.summary[1]
    IN  (IF r.emotions.summary # <<>>
         THEN Max(0, (s.happy * 2 + s.neutral) * 3500 - (s.fear * 2 + s.sad) * 3500
                         - s.sad * 1750)
         ELSE 0)
        + r.facial_analysis.eye_contact * 2500
        + r.body_language.posture_score * 1500
        + r.body_language.stability * 500

\* the sum of the weights of the modalities other than voice
RemainingWeights(r) ==
    (IF r.emotions.summary # <<>> THEN 350000 ELSE 0) + 250000 + 150000 + 50000

AuthenticityWithoutMicro(voice) ==
    LET with_voice == voice # EmptyDict
        score == 5000
                 + (IF with_voice /\ 2000 < voice.pitch_std /\ voice.pitch_std < 8000
                    THEN 1500 ELSE 0)
                 + (IF with_voice THEN voice.clarity_score * 15 ELSE 0)
    IN  Round(Max(0, Min(10000, score)), 10)

\* C14: when DeepFace is absent or the micro-expression analysis raised, the
\* authenticity score of a run carries no micro-expression adjustment: it is
\* the base and the voice terms alone, without the -1 of a count below 5.
C14_MicroExcluded ==
    (Fused /\ (~analyzer.deepface \/ results.micro_expressions.error)) =>
        results.authenticity_score = AuthenticityWithoutMicro(results.voice_analysis)

\* the messages of the eye-tracking rules, lines 1274-1285
EyeTrackingMessages == {"improve_eye_contact", "high_blink_rate", "low_blink_rate",
                        "steadier_gaze"}

\* C15: when the analyzer has no face mesh, the recommendations a run returns
\* hold no message of the eye-tracking rules (eye contact, blink rate, gaze
\* stability).
C15_NoEyeTrackingMessages ==
    (Fused /\ ~analyzer.face_mesh) =>
        Range(results.recommendations) \cap EyeTrackingMessages = {}

(***************************************************************************)
(* Properties of the frame walks.                                          *)
(***************************************************************************)
\* the call has stored the summary of a modality
Stored(key) == results # EmptyDict /\ results[key] # EmptyDict

\* the emotion walk in which only the failing frame gave no sample
OtherSamples(walk) ==
    IF FailingSample <= Len(walk) THEN [walk EXCEPT ![FailingSample] = NoFace] ELSE walk

\* the eye-tracking walks in which one sampled frame gave no sample
WithoutOneSample(walk) ==
    {[walk EXCEPT !.total_analyzed = @ - 1,
                  !.gaze_direction[d] = @ - 1,
                  !.eye_contact_frames = IF d = "center" THEN @ - 1 ELSE @] :
        d \in {k \in DOMAIN walk.gaze_direction : walk.gaze_direction[k] > 0}}

\* C16: a failure on one sampled frame of a walk costs that sample alone.
\* The emotion summary is the one of every sampled frame, or of every
\* sampled frame but the failing one; so is the eye-tracking summary; and a
\* validator in which an OpenCV call raised on a frame still reports what
\* its other samples show, not the result of a failed validation.
C16_FrameFailureSkipsSample ==
    /\ Stored("emotions") =>
           results.emotions \in
               {analyze_emotions(analyzer, EmotionWalk(video), FALSE),
                analyze_emotions(analyzer, OtherSamples(EmotionWalk(video)), FALSE)}
    /\ (Stored("eye_tracking") /\ analyzer.face_mesh) =>
           results.eye_tracking \in
               {analyze_eye_tracking(analyzer, video, walk, FALSE) :
                    walk \in {EyeWalk(video)} \cup WithoutOneSample(EyeWalk(video))}
    /\ (Stored("validation") /\ video.cv_error) =>
           results.validation # validation_error(results.validation.duration)

(***************************************************************************)
(* The score calculators on their own: they are called on summaries drawn  *)
(* from the ends of the ranges of their metrics, on summaries as           *)
(* initialised, on summaries with a single key and on empty ones.          *)
(***************************************************************************)
EmotionSummaries ==
    {EmptyDict,
     [error |-> TRUE, summary |-> <<>>, dominant_emotion |-> "neutral", timeline |-> <<>>],
     [error |-> FALSE, summary |-> <<Emotions(0, 100, 0, 0, 0)>>,
      dominant_emotion |-> "happy", timeline |-> <<>>],
     [error |-> FALSE, summary |-> <<Emotions(100, 0, 0, 0, 0)>>,
      dominant_emotion |-> "fear", timeline |-> <<>>]}

FacialSummaries ==
    {EmptyDict, facial_data,
     [facial_data EXCEPT !.eye_contact = 100, !.smile_frequency = 100,
                         !.face_detected_ratio = 100]}

BodySummaries ==
    {EmptyDict, body_data,
     [body_data EXCEPT !.posture_score = 100, !.gestures_detected = 10,
                       !.stability = 100]}

VoiceSummaries ==
    {EmptyDict, voice_data(NoTranscript), [clarity_score |-> 100],
     [voice_data(Fluent) EXCEPT !.pitch_std = 4000, !.speech_rate = 14000,
                                !.clarity_score = 100]}

EyeSummaries ==
    {EmptyDict, eye_data,
     [eye_data EXCEPT !.eye_contact_percentage = 10000, !.gaze_stability = 100]}

AttentionSummaries ==
    {EmptyDict, attention_data, [attention_data EXCEPT !.focus_percentage = 10000]}

MicroSummaries ==
    {EmptyDict, micro_data, [micro_data EXCEPT !.detected_count = 10],
     [micro_data EXCEPT !.detected_count = 30]}

ScoresInit ==
    /\ results \in
           {[InitialResults EXCEPT
                !.emotions = emotions, !.facial_analysis = facial,
                !.body_language = body, !.voice_analysis = voice,
                !.eye_tracking = eye_tracking, !.attention_metrics = attention,
                !.micro_expressions = micro] :
              emotions \in EmotionSummaries, facial \in FacialSummaries,
              body \in BodySummaries, voice \in VoiceSummaries,
              eye_tracking \in EyeSummaries, attention \in AttentionSummaries,
              micro \in MicroSummaries}
    /\ pc = "calculators"
    /\ video = "none"
    /\ analyzer = "none"
    /\ transcription = "none"
    /\ stages = <<>>
    /\ audio_path = None
    /\ temp_audio = FALSE
    /\ realtime_analyzer = <<>>
    /\ result = NoResult
    /\ summary = NoSummary
    /\ last_call = "none"
    /\ calls = 0
    /\ arrived = <<>>
    /\ wiped = FALSE
    /\ ws = [c \in Conns |-> Handler("unused")]
    /\ session = [c \in Conns |-> NoSession]

\* the four calculators, called as lines 172-175 call them
CallCalculators ==
    /\ pc = "calculators"
    /\ results' = calculate_scores(results)
    /\ pc' = "calculated"
    /\ UNCHANGED <<video, analyzer, transcription, stages, audio_path, temp_audio,
                   rt_vars, ws_vars>>

ScoresNext == CallCalculators

SpecScores == ScoresInit /\ [][ScoresNext]_vars

\* C17: whatever summaries the calculators are given, each of the confidence,
\* professionalism, engagement and authenticity scores they return lies
\* between 0 and 10.
C17_ScoresInRange ==
    pc = "calculated" => \A f \in ScoreFields : results[f] \in 0..1000

\* the calculators have returned from summaries in which happiness alone
\* makes the emotion term twice its weight and no other modality has data
C17_Witness ==
    /\ pc = "calculated"
    /\ Get(results.emotions, "summary", <<>>) = <<Emotions(0, 100, 0, 0, 0)>>
    /\ results.facial_analysis = EmptyDict
    /\ results.body_language = EmptyDict
    /\ results.voice_analysis = EmptyDict
    /\ results.confidence_score = 1000

(***************************************************************************)
(* Properties of the summaries.                                            *)
(***************************************************************************)
\* a percentage, in hundredths of a percent
Percentages == 0..10000

\* C18: in the summaries a call has stored, the eye contact percentage, each
\* entry of the gaze direction histogram and the focus percentage lie
\* between 0 and 100, whichever way the analyzer returned.
C18_PercentagesInRange ==
    /\ Stored("eye_tracking") =>
           /\ results.eye_tracking.eye_contact_percentage \in Percentages
           /\ \A d \in DOMAIN results.eye_tracking.gaze_direction :
                  results.eye_tracking.gaze_direction[d] \in Percentages
    /\ Stored("attention_metrics") =>
           results.attention_metrics.focus_percentage \in Percentages

(***************************************************************************)
(* The validator on its own: _validate_video_quality is called on videos   *)
(* of many lengths, face counts and audio energies around its thresholds.  *)
(***************************************************************************)
ValidatorFrameCounts == {0, 1, 75, 150, 270, 299, 300, 450}

ValidatorFrameRates == {0, 15, 30}

ValidatorAudioEnergies == {0, 99, 100, 101, 300}

ValidatorVideos ==
    {v \in [openable : {TRUE}, fps : ValidatorFrameRates,
            frame_count : ValidatorFrameCounts, faces_detected : 0..MaxFaces,
            audio_decodes : BOOLEAN, audio_energy : ValidatorAudioEnergies,
            cv_error : BOOLEAN, footage : {"none"}] :
        /\ v.faces_detected <= SampledFrames(v)
        /\ ~v.audio_decodes => v.audio_energy = 0}

ValidatorInit ==
    /\ video \in ValidatorVideos
    /\ pc = "validator"
    /\ results = EmptyDict
    /\ analyzer = "none"
    /\ transcription = "none"
    /\ stages = <<>>
    /\ audio_path = None
    /\ temp_audio = FALSE
    /\ realtime_analyzer = <<>>
    /\ result = NoResult
    /\ summary = NoSummary
    /\ last_call = "none"
    /\ calls = 0
    /\ arrived = <<>>
    /\ wiped = FALSE
    /\ ws = [c \in Conns |-> Handler("unused")]
    /\ session = [c \in Conns |-> NoSession]

\* the validator, called as line 126 calls it
CallValidateVideoQuality ==
    /\ pc = "validator"
    /\ results' = [InitialResults EXCEPT !.validation = validate_video_quality(video)]
    /\ pc' = "validated"
    /\ UNCHANGED <<video, analyzer, transcription, stages, audio_path, temp_audio,
                   rt_vars, ws_vars>>

ValidatorNext == CallValidateVideoQuality

SpecValidator == ValidatorInit /\ [][ValidatorNext]_vars

\* the validator returned without an exception, with these rules fired
Validated == pc = "validated" /\ results.validation.issues # <<"error">>

FaceRatioPasses == results.validation.face_detection_ratio >= MIN_FACE_DETECTION_RATIO

AudioPasses ==
    results.validation.has_audio /\ results.validation.audio_energy >= MIN_AUDIO_ENERGY

\* C19: for a video shorter than 10 s whose face ratio and audio pass, the
\* validation is not valid, has exactly one issue, and its suggested score
\* is 3.0 * duration / 10 (to the hundredth below), which is under 3.0; for
\* a duration of 5 s it is at most 1.5.
C19_DurationRule ==
    LET fps == FpsOr30(video)
        suggested_score == results.validation.suggested_score
    IN  (Validated /\ video.frame_count < 10 * fps /\ FaceRatioPasses /\ AudioPasses) =>
            /\ ~results.validation.is_valid
            /\ Len(results.validation.issues) = 1
            /\ suggested_score * 10 * fps <= 3 * 100 * video.frame_count
            /\ 3 * 100 * video.frame_count < (suggested_score + 1) * 10 * fps
            /\ suggested_score <= 300
            /\ video.frame_count = 5 * fps => suggested_score <= 150

\* the validator has judged a video of 5 s with faces and sound
C19_Witness ==
    /\ Validated
    /\ video.frame_count = 5 * FpsOr30(video)
    /\ FaceRatioPasses
    /\ AudioPasses
    /\ results.validation.issues = <<"too_short">>
    /\ results.validation.suggested_score = 150

\* how many of the three rules fire on the video
RulesFired ==
    (IF video.frame_count < 10 * FpsOr30(video) THEN 1 ELSE 0)
    + (IF FaceRatioPasses THEN 0 ELSE 1)
    + (IF AudioPasses THEN 0 ELSE 1)

\* C20: whenever two or more of the three rules (too short, face ratio below
\* 0.30, no or quiet audio) fire, the suggested score is at most 2.5; so it
\* is for a video of 5 s without a face and without sound.
C20_MultiIssueCap ==
    Validated =>
        /\ RulesFired >= 2 => results.validation.suggested_score <= 250
        /\ (video.frame_count = 5 * FpsOr30(video) /\ video.faces_detected = 0
                /\ ~video.audio_decodes) =>
               /\ Len(results.validation.issues) = 3
               /\ results.validation.suggested_score <= 250

\* the validator has judged a video of nearly 10 s without sound, whose
\* duration alone would give more than 2.5
C20_Witness ==
    /\ Validated
    /\ results.validation.issues = <<"too_short", "no_audio">>
    /\ duration_score(video.frame_count, FpsOr30(video)) > 250
    /\ results.validation.suggested_score = 250

(***************************************************************************)
(* Properties of the recommendations                                       *)
(***************************************************************************)
\* the banner lines 1357-1364 insert for a result, as a list of one or none
Banner(r) == with_banner(r, <<>>)

\* the lists the except clause of lines 1366-1368 can leave for a result
AfterRuleError(r) == {generate_recommendations(r, fault) : fault \in RuleFaults \ {"none"}}

\* C21: the recommendations of a run are at most 8 at every moment, whether
\* the validator's or the rules' or those the rules' except clause leaves,
\* and where the rules end without an error and a banner applies, the banner
\* is the first item of the list the run returns.
C21_AtMostEightBannerFirst ==
    /\ [](Len(Get(results, "recommendations", <<>>)) <= 8)
    /\ [][(GenerateRecommendations
            /\ Banner(results) # <<>>
            /\ results'.recommendations \notin AfterRuleError(results))
          => /\ results'.recommendations # <<>>
             /\ <<results'.recommendations[1]>> = Banner(results)]_vars

\* a run returned eight recommendations and a banner leads them
C21_Witness ==
    /\ pc = "returned"
    /\ "Done" \in Range(stages)
    /\ Len(results.recommendations) = 8
    /\ results.recommendations[1] \in {"outstanding", "great_job"}

\* the two positive banners
Banners == {"outstanding", "great_job"}

\* the banners among a list of recommendations
BannersOf(recommendations) ==
    LET IsBanner(tag) == tag \in Banners IN SelectSeq(recommendations, IsBanner)

\* C22: where the rules end without an error, the returned list holds the
\* Outstanding banner exactly when confidence, professionalism and engagement
\* are all at least 8, otherwise the Great job banner exactly when all three
\* are at least 7, and otherwise no banner.
C22_BannerRule ==
    [][(GenerateRecommendations
            /\ results'.recommendations \notin AfterRuleError(results))
          => BannersOf(results'.recommendations) =
                IF results.confidence_score >= 800
                       /\ results.professionalism_score >= 800
                       /\ results.engagement_score >= 800
                THEN <<"outstanding">>
                ELSE IF results.confidence_score >= 700
                       /\ results.professionalism_score >= 700
                       /\ results.engagement_score >= 700
                THEN <<"great_job">>
                ELSE <<>>]_vars

(***************************************************************************)
(* The recommendation rules on their own: _generate_recommendations is     *)
(* called on results whose scores and speech rate lie around the           *)
(* thresholds of the rules.                                                *)
(***************************************************************************)
\* the variables of the other models, at rest
OnItsOwn ==
    /\ video = "none"
    /\ analyzer = "none"
    /\ transcription = "none"
    /\ stages = <<>>
    /\ audio_path = None
    /\ temp_audio = FALSE
    /\ realtime_analyzer = <<>>
    /\ result = NoResult
    /\ summary = NoSummary
    /\ last_call = "none"
    /\ calls = 0
    /\ arrived = <<>>
    /\ wiped = FALSE
    /\ ws = [c \in Conns |-> Handler("unused")]
    /\ session = [c \in Conns |-> NoSession]

\* speech rates, in hundredths of a word per minute
SpeechRates == {0, 5000, 9999, 10000, 13000, 16000, 16001, 17000, 18000, 18001, 20000}

\* scores, in hundredths of a point
RuleScores == {650, 750, 850}

RulesInit ==
    /\ results \in
           {[InitialResults EXCEPT
                !.voice_analysis = voice, !.confidence_score = confidence,
                !.professionalism_score = professionalism,
                !.engagement_score = engagement] :
              voice \in {EmptyDict}
                        \cup {[voice_data(Fluent) EXCEPT !.speech_rate = speech_rate] :
                                 speech_rate \in SpeechRates},
              confidence \in RuleScores, professionalism \in RuleScores,
              engagement \in RuleScores}
    /\ pc = "rules"
    /\ OnItsOwn

\* _generate_recommendations, called as line 186 calls it
CallGenerateRecommendations ==
    /\ pc = "rules"
    /\ \E fault \in RuleFaults :
        results' = [results EXCEPT
            !.recommendations = generate_recommendations(results, fault)]
    /\ pc' = "ruled"
    /\ UNCHANGED <<video, analyzer, transcription, stages, audio_path, temp_audio,
                   rt_vars, ws_vars>>

RulesNext == CallGenerateRecommendations

SpecRules == RulesInit /\ [][RulesNext]_vars

\* the two messages about the pace of speech
SpeechRateMessages == {"slow_down", "speak_faster"}

\* C23: where the result has a voice summary and the rules end without an
\* error, the returned list holds a message about the pace of speech exactly
\* when the speech rate is below 100 or above 180 words per minute.
C23_SpeechRateRule ==
    [][(CallGenerateRecommendations
            /\ results.voice_analysis # EmptyDict
            /\ results'.recommendations \notin AfterRuleError(results))
          => (Range(results'.recommendations) \cap SpeechRateMessages # {}
                <=> results.voice_analysis.speech_rate \notin 10000..18000)]_vars

(***************************************************************************)
(* The micro-expression walk a sampled frame at a time,                    *)
(* _analyze_micro_expressions, lines 561-616.  The video is the list of    *)
(* what DeepFace.analyze does on each sampled frame, the dominant emotion  *)
(* it returns or "raises", and the frame rate.  The i-th sampled frame is  *)
(* frame 10 * i; a timestamp frame_count / fps is kept as its frame_count, *)
(* and two timestamps are compared after multiplying by fps, exactly, not  *)
(* as the rounded floating-point quotients.                                *)
(***************************************************************************)
MaxMicroSamples == 5

MicroEmotions == {"happy", "neutral", "fear"}

MicroFrameRates == {20, 30, 60}

RECURSIVE SeqsUpTo(_, _)
\* the lists of at most n members of S
SeqsUpTo(S, n) ==
    IF n = 0 THEN {<<>>}
    ELSE LET shorter == SeqsUpTo(S, n - 1)
         IN  shorter \cup {Append(q, x) : q \in {p \in shorter : Len(p) = n - 1}, x \in S}

MicroVideos ==
    {[frames |-> frames, fps |-> fps] :
        frames \in SeqsUpTo(MicroEmotions \cup {"raises"}, MaxMicroSamples),
        fps \in MicroFrameRates}

\* lines 547-566: micro_data and the locals of the walk; sampled counts the
\* sampled frames read
micro_walk_start ==
    [detected_count |-> 0, types |-> <<>>, authenticity_indicators |-> <<>>,
     prev_emotion |-> None, emotion_changes |-> <<>>, sampled |-> 0]

\* line 598 with a change half a second after the last one taken as rapid
is_rapid_or_half(earlier, later, fps) == 2 * (later - earlier) <= fps

\* lines 597-598: time_diff < 0.5, between the frame_counts of two changes
is_rapid(earlier, later, fps) == 2 * (later - earlier) < fps

\* line 600-601: types[micro_type] = types.get(micro_type, 0) + 1
count_type(types, micro_type) ==
    [t \in DOMAIN types \cup {micro_type} |->
        (IF t \in DOMAIN types THEN types[t] ELSE 0) + (IF t = micro_type THEN 1 ELSE 0)]

\* lines 577-603, the body of the loop on a sampled frame: w is the walk so
\* far, outcome what DeepFace.analyze does on the frame
micro_frame(w, outcome, fps) ==
    LET frame_count == 10 * (w.sampled + 1)
        read == [w EXCEPT !.sampled = @ + 1]
        changed == w.prev_emotion # None /\ outcome # w.prev_emotion
        emotion_changes ==
            IF changed
            THEN Append(w.emotion_changes,
                        [timestamp |-> frame_count, from |-> w.prev_emotion, to |-> outcome])
            ELSE w.emotion_changes
        n == Len(emotion_changes)
        micro == /\ changed
                 /\ n > 1
                 /\ is_rapid(emotion_changes[n - 1].timestamp,
                             emotion_changes[n].timestamp, fps)
    IN  IF outcome = "raises" THEN read
        ELSE [read EXCEPT
                !.emotion_changes = emotion_changes,
                !.detected_count = IF micro THEN @ + 1 ELSE @,
                !.types = IF micro THEN count_type(@, <<w.prev_emotion, outcome>>) ELSE @,
                !.prev_emotion = outcome]

\* lines 607-616: the indicators added after the walk
micro_indicators(detected_count) ==
    When(detected_count > 0, "natural")
    \o (IF detected_count > 20 THEN <<"high_rate">>
        ELSE IF detected_count < 5 THEN <<"low_rate">> ELSE <<>>)

MicroInit ==
    /\ video \in MicroVideos
    /\ results = micro_walk_start
    /\ pc = "micro_walk"
    /\ analyzer = "none"
    /\ transcription = "none"
    /\ stages = <<>>
    /\ audio_path = None
    /\ temp_audio = FALSE
    /\ realtime_analyzer = <<>>
    /\ result = NoResult
    /\ summary = NoSummary
    /\ last_call = "none"
    /\ calls = 0
    /\ arrived = <<>>
    /\ wiped = FALSE
    /\ ws = [c \in Conns |-> Handler("unused")]
    /\ session = [c \in Conns |-> NoSession]

\* lines 568-603: a sampled frame is read and analysed
MicroFrame ==
    /\ pc = "micro_walk"
    /\ results.sampled < Len(video.frames)
    /\ results' = micro_frame(results, video.frames[results.sampled + 1], video.fps)
    /\ UNCHANGED <<pc, video, analyzer, transcription, stages, audio_path, temp_audio,
                   rt_vars, ws_vars>>

\* lines 569-570 and 605-616: no frame is left, the walk ends
MicroEnd ==
    /\ pc = "micro_walk"
    /\ results.sampled = Len(video.frames)
    /\ results' = [results EXCEPT
            !.authenticity_indicators = micro_indicators(results.detected_count)]
    /\ pc' = "micro_walked"
    /\ UNCHANGED <<video, analyzer, transcription, stages, audio_path, temp_audio,
                   rt_vars, ws_vars>>

MicroNext == MicroFrame \/ MicroEnd

SpecMicro == MicroInit /\ [][MicroNext]_vars

\* the sampled frames read so far that DeepFace classified
Classified == {i \in 1..results.sampled : video.frames[i] # "raises"}

\* the last member of a set of sampled frames before frame i, 0 without one
LastBefore(S, i) ==
    IF \E j \in S : j < i
    THEN CHOOSE j \in S : j < i /\ \A k \in S : k < i => k <= j
    ELSE 0

\* the classified frames whose emotion differs from the one of the
\* classified frame before them
Transitions ==
    {i \in Classified :
        /\ LastBefore(Classified, i) # 0
        /\ video.frames[i] # video.frames[LastBefore(Classified, i)]}

\* the transitions less than half a second after the transition before them
RapidTransitions ==
    {i \in Transitions :
        /\ LastBefore(Transitions, i) # 0
        /\ 2 * (10 * i - 10 * LastBefore(Transitions, i)) < video.fps}

\* the emotions a transition leaves and enters
FromTo(i) == <<video.frames[LastBefore(Classified, i)], video.frames[i]>>

\* C24: at every moment of the walk a change is recorded for each classified
\* frame whose emotion differs from the previous classified frame's,
\* detected_count is the number of changes less than 0.5 s after the change
\* recorded before them, so the first never counts, types counts them by
\* their pair of emotions, and on a frame whose classification raises the
\* previous emotion, the changes and the counts stay as they are.
C24_MicroExpressionCounting ==
    /\ [](pc \in {"micro_walk", "micro_walked"} =>
            /\ Len(results.emotion_changes) = Cardinality(Transitions)
            /\ {c.timestamp : c \in Range(results.emotion_changes)}
                   = {10 * i : i \in Transitions}
            /\ results.detected_count = Cardinality(RapidTransitions)
            /\ DOMAIN results.types = {FromTo(i) : i \in RapidTransitions}
            /\ \A t \in DOMAIN results.types :
                   results.types[t] = Cardinality({i \in RapidTransitions : FromTo(i) = t}))
    /\ [][(MicroFrame /\ video.frames[results.sampled + 1] = "raises")
            => results' = [results EXCEPT !.sampled = @ + 1]]_vars

\* a walk counted two rapid changes although a classification raised
C24_Witness ==
    /\ pc = "micro_walked"
    /\ results.detected_count = 2
    /\ Len(results.emotion_changes) = 3
    /\ \E i \in 1..Len(video.frames) : video.frames[i] = "raises"

(***************************************************************************)
(* The attention analyzer on its own: _analyze_attention is called on      *)
(* videos given as the list of what the face mesh finds in each sampled    *)
(* frame: a face turned to the camera, a face turned away, or no face.     *)
(***************************************************************************)
MaxAttentionSamples == 5

AttentionFrames == {"focused", "away", "no_face"}

AttentionVideos ==
    {[frames |-> frames, fps |-> fps] :
        frames \in SeqsUpTo(AttentionFrames, MaxAttentionSamples), fps \in FrameRates}

\* the sampled frames of a kind
FramesOf(frames, kinds) == {i \in DOMAIN frames : frames[i] \in kinds}

\* lines 650-689, the walk over the sampled frames.  A face turned away has a
\* yaw of 30 degrees and the others a yaw of 0, all have a pitch of 0, so the
\* summed variance is 900 * away * (faces - away) / faces^2; an entry of the
\* timeline is stored for every third sampled frame with a face
attention_walk(v) ==
    LET faces == Cardinality(FramesOf(v.frames, {"focused", "away"}))
        away == Cardinality(FramesOf(v.frames, {"away"}))
    IN  [total_frames |-> faces,
         focused_frames |-> Cardinality(FramesOf(v.frames, {"focused"})),
         distraction_count |-> Cardinality(FramesOf(v.frames, {"no_face"})),
         pose_variance |-> IF faces > 0
                           THEN (900 * away * (faces - away)) \div (faces * faces) ELSE 0,
         attention_timeline |->
             sorted({(10 * i) \div FpsOr30(v) :
                        i \in {j \in FramesOf(v.frames, {"focused", "away"}) : j % 3 = 0}})]

AttentionInit ==
    /\ video \in AttentionVideos
    /\ analyzer \in Analyzers
    /\ results = InitialResults
    /\ pc = "attention_call"
    /\ transcription = "none"
    /\ stages = <<>>
    /\ audio_path = None
    /\ temp_audio = FALSE
    /\ realtime_analyzer = <<>>
    /\ result = NoResult
    /\ summary = NoSummary
    /\ last_call = "none"
    /\ calls = 0
    /\ arrived = <<>>
    /\ wiped = FALSE
    /\ ws = [c \in Conns |-> Handler("unused")]
    /\ session = [c \in Conns |-> NoSession]

\* _analyze_attention, called as line 160 calls it; fails says that a call
\* made on a frame raised
CallAnalyzeAttention ==
    /\ pc = "attention_call"
    /\ \E fails \in BOOLEAN :
        results' = [results EXCEPT
            !.attention_metrics =
                analyze_attention(analyzer, video, attention_walk(video), fails)]
    /\ pc' = "attended"
    /\ UNCHANGED <<video, analyzer, transcription, stages, audio_path, temp_audio,
                   rt_vars, ws_vars>>

AttentionNext == CallAnalyzeAttention

SpecAttention == AttentionInit /\ [][AttentionNext]_vars

\* C25: whatever the sampled frames show, an attention summary computed
\* without an error has as distraction_count the number of sampled frames
\* without a face and as looking_away_duration that number divided by the
\* frame rate, also when no sampled frame has a face.
C25_AttentionAggregation ==
    (pc = "attended" /\ analyzer.face_mesh /\ ~results.attention_metrics.error) =>
        LET no_face == Cardinality(FramesOf(video.frames, {"no_face"}))
        IN  /\ results.attention_metrics.distraction_count = no_face
            /\ results.attention_metrics.looking_away_duration
                   = Round(no_face * 100, FpsOr30(video))

(***************************************************************************)
(* Properties of the voice summary                                         *)
(***************************************************************************)
\* C26: a voice summary computed without an error has as clarity_score
\* max(0, 1 - 2 * fillers / words), rounded to hundredths, when its
\* transcript has words, and 0.8 when it has none, an empty or absent
\* transcript included.
C26_VoiceClarity ==
    (Stored("voice_analysis") /\ results.voice_analysis # EmptyDict
        /\ ~results.voice_analysis.error) =>
        LET spoken == results.voice_analysis.transcription
        IN  /\ results.voice_analysis.clarity_score \in 0..100
            /\ results.voice_analysis.clarity_score =
                   IF spoken.words > 0
                   THEN Round(Max(0, spoken.words - 2 * spoken.fillers) * 100, spoken.words)
                   ELSE 80

(***************************************************************************)
(* The gaze classifier on its own: _calculate_gaze_direction, lines        *)
(* 509-544, is called on iris offsets around its thresholds.  An offset is *)
(* in thousandths of the eye width or of the frame height.                 *)
(***************************************************************************)
GazeOffsets == {-300, -200, -151, -150, -101, -100, 0, 50, 100, 101, 150, 151, 200, 300}

\* abs()
Abs(x) == IF x < 0 THEN -x ELSE x

\* lines 532-536 with the vertical offset tested before the horizontal one
gaze_direction_vertical_first(x_offset, y_offset) ==
    IF Abs(y_offset) > 100 THEN (IF y_offset < 0 THEN "up" ELSE "down")
    ELSE IF Abs(x_offset) > 150 THEN (IF x_offset > 0 THEN "right" ELSE "left")
    ELSE "center"

\* lines 532-536
gaze_direction(x_offset, y_offset) ==
    IF Abs(x_offset) > 150 THEN (IF x_offset > 0 THEN "right" ELSE "left")
    ELSE IF Abs(y_offset) > 100 THEN (IF y_offset < 0 THEN "up" ELSE "down")
    ELSE "center"

\* lines 511-544; raises says that an exception left the try block
calculate_gaze_direction(x_offset, y_offset, raises) ==
    IF raises THEN [direction |-> "center", x |-> 0, y |-> 0]
    ELSE [direction |-> gaze_direction(x_offset, y_offset), x |-> x_offset, y |-> y_offset]

\* video is the frame, given by the offsets of the iris in it
GazeInit ==
    /\ video \in [x_offset : GazeOffsets, y_offset : GazeOffsets]
    /\ results = EmptyDict
    /\ pc = "gaze_call"
    /\ analyzer = "none"
    /\ transcription = "none"
    /\ stages = <<>>
    /\ audio_path = None
    /\ temp_audio = FALSE
    /\ realtime_analyzer = <<>>
    /\ result = NoResult
    /\ summary = NoSummary
    /\ last_call = "none"
    /\ calls = 0
    /\ arrived = <<>>
    /\ wiped = FALSE
    /\ ws = [c \in Conns |-> Handler("unused")]
    /\ session = [c \in Conns |-> NoSession]

\* _calculate_gaze_direction, called as line 430 calls it
CallCalculateGazeDirection ==
    /\ pc = "gaze_call"
    /\ \E raises \in BOOLEAN :
        results' = calculate_gaze_direction(video.x_offset, video.y_offset, raises)
    /\ pc' = "gazed"
    /\ UNCHANGED <<video, analyzer, transcription, stages, audio_path, temp_audio,
                   rt_vars, ws_vars>>

GazeNext == CallCalculateGazeDirection

SpecGaze == GazeInit /\ [][GazeNext]_vars

\* C27: a gaze computed without an exception is right or left, by the sign
\* of the horizontal offset, when that offset exceeds 0.15 in size; otherwise
\* down or up, by the sign of the vertical offset, when that one exceeds
\* 0.10 in size; otherwise center.  Offsets (0.20, 0.00) give right and
\* (0.05, 0.15) give down.
C27_GazeClassification ==
    [][CallCalculateGazeDirection =>
        \/ results' = [direction |-> "center", x |-> 0, y |-> 0]
        \/ /\ results'.x = video.x_offset
           /\ results'.y = video.y_offset
           /\ results'.direction =
                  IF video.x_offset > 150 THEN "right"
                  ELSE IF video.x_offset < -150 THEN "left"
                  ELSE IF video.y_offset > 100 THEN "down"
                  ELSE IF video.y_offset < -100 THEN "up"
                  ELSE "center"
           /\ (video.x_offset = 200 /\ video.y_offset = 0) => results'.direction = "right"
           /\ (video.x_offset = 50 /\ video.y_offset = 150) => results'.direction = "down"]_vars

\* both offsets exceeded their thresholds and the horizontal one decided
C27_Witness ==
    /\ pc = "gazed"
    /\ video.x_offset = 200
    /\ video.y_offset = -200
    /\ results.direction = "right"

(***************************************************************************)
(* Properties of the validator's report                                    *)
(***************************************************************************)
\* C28: whichever way the validator returns, by its except clause included,
\* its report is valid exactly when it lists no issue, a valid report has a
\* suggested_score of 0.0 and no recommendation, and an invalid one lists at
\* least one issue.
C28_ReportConsistent ==
    pc = "validated" =>
        LET validation == results.validation
        IN  /\ validation.is_valid <=> validation.issues = <<>>
            /\ validation.is_valid =>
                   validation.suggested_score = 0 /\ validation.recommendations = <<>>
            /\ ~validation.is_valid => Len(validation.issues) >= 1

\* the validator returned by its except clause
C28_Witness ==
    /\ pc = "validated"
    /\ video.cv_error
    /\ ~results.validation.is_valid
    /\ results.validation.issues = <<"error">>

\* the video of the same length that has a face in every sampled frame and
\* sound enough
FailingDurationAlone(v) ==
    [v EXCEPT !.faces_detected = SampledFrames(v), !.audio_decodes = TRUE,
              !.audio_energy = 300, !.cv_error = FALSE]

\* the face rule or the audio rule fired
FaceOrAudioFired ==
    Range(results.validation.issues) \cap {"no_face", "no_audio"} # {}

\* C29: in a report made without an exception in which the face rule or the
\* audio rule fired, the suggested score lies between 2.0 and 3.0 whatever
\* the duration, and for a short video it is not below the score of the
\* video of the same duration that fails the duration rule alone; and the
\* suggested score of every invalid report lies between 0 and 3.0.
C29_ScoreFloor ==
    pc = "validated" =>
        LET validation == results.validation
        IN  /\ (Validated /\ FaceOrAudioFired) =>
                /\ validation.suggested_score \in 200..300
                /\ validation.suggested_score >=
                       validate_video_quality(FailingDurationAlone(video)).suggested_score
            /\ ~validation.is_valid => validation.suggested_score \in 0..300

\* C29, amended: as C29, but a short video in which the face rule or the
\* audio rule fired too is not below the score of the same-duration video
\* failing the duration rule alone only up to the cap of 2.5 that several
\* issues bring: its score is at least the smaller of that score and 2.5.
C29_ScoreFloorUpToCap ==
    pc = "validated" =>
        LET validation == results.validation
        IN  /\ (Validated /\ FaceOrAudioFired) =>
                /\ validation.suggested_score \in 200..300
                /\ validation.suggested_score >=
                       Min(250, validate_video_quality(FailingDurationAlone(video)).suggested_score)
            /\ ~validation.is_valid => validation.suggested_score \in 0..300

\* a video of 9 s without a face was given 2.5, where its duration alone
\* gives 2.7
C29_Witness ==
    /\ Validated
    /\ results.validation.issues = <<"too_short", "no_face">>
    /\ validate_video_quality(FailingDurationAlone(video)).suggested_score = 270
    /\ results.validation.suggested_score = 250

(***************************************************************************)
(* Properties of the session summary                                       *)
(***************************************************************************)
\* the gaze entries the analyzer still holds: the last 100 recorded since
\* the last reset
Retained == LastN(arrived, HISTORY_LIMIT)

\* C30: get_session_summary leaves the analyzer's frame_count and histories
\* as they are; the summary's total_frames is the number of analyze_frame
\* calls since the last reset; its eye_contact_percentage is present exactly
\* when a gaze entry was recorded, and then lies between 0 and 100 and is
\* the mean, to the nearest hundredth of a percent, of the entries retained,
\* which are the 100 most recent at most.
C30_SummaryReadOnly ==
    /\ [][CallGetSessionSummary => realtime_analyzer' = realtime_analyzer]_vars
    /\ [](last_call = "get_session_summary" =>
            /\ summary.total_frames = calls
            /\ summary.has_eye_contact_percentage <=> arrived # <<>>
            /\ summary.has_eye_contact_percentage =>
                   /\ summary.eye_contact_percentage \in 0..10000
                   /\ Len(Retained) <= HISTORY_LIMIT
                   /\ 2 * (summary.eye_contact_percentage * Len(Retained)
                            - SumSeq(Retained) * 10000) <= Len(Retained)
                   /\ 2 * (SumSeq(Retained) * 10000
                            - summary.eye_contact_percentage * Len(Retained))
                          <= Len(Retained))

\* a summary was taken after more than 100 frames, the oldest of them without
\* eye contact and no longer retained
C30_Witness ==
    /\ last_call = "get_session_summary"
    /\ Len(arrived) > HISTORY_LIMIT
    /\ arrived[1] = 0
    /\ summary.has_eye_contact_percentage
    /\ summary.eye_contact_percentage * Len(arrived) # SumSeq(arrived) * 10000
====
